---------------------------- MODULE Spec2Model ----------------------------
(* Model of the dotprompt-gen-go schema parser: internal/parser (schema.go,  *)
(* jsonschema.go, picoschema.go) and internal/naming.                        *)
(*                                                                           *)
(* Go strings are modelled as sequences of tokens.  A token is one byte of   *)
(* the string ("a", "_", "?", ...) or a fixed multi-byte word that the code  *)
(* only ever handles as a whole ("(array)", "string", "Enum", "[]", ...).    *)
(* Concatenation is \o, strings.HasPrefix looks at the first token.          *)
(* GoField.Comment / ExtraTags and the descriptors' comments are left out:   *)
(* no other field of the result is computed from them.                       *)
EXTENDS Integers, Sequences, FiniteSets, TLC

VARIABLES
    schema,            \* the decoded schema value handed to the parser
    requiredFields,    \* requiredFields argument
    schemaType,        \* "input" or "output"
    fieldOrder,        \* root ordering hint (nil is <<>>)
    nestedFieldOrder,  \* nested ordering hints: path -> property names
    mapOrder,          \* order in which the Go runtime iterates maps this run
    variables,         \* the variables found in the template
    pc,                \* "ready" before the call, "done" after it returned,
                       \* "reseeded" and "again" around a second run
    entry,             \* the exported function that was called
    result             \* what it returned, and the log of field-handler calls

vars == <<schema, requiredFields, schemaType, fieldOrder, nestedFieldOrder,
          mapOrder, variables, pc, entry, result>>

SchemaTypeInput == "input"
SchemaTypeOutput == "output"

-----------------------------------------------------------------------------
(* Bounds of the checked input families.                                     *)

\* nesting depth of records (objects / object items) below a root field
MaxNest == 2
\* number of entries in a nestedFieldOrder table
MaxHints == 2
\* length of a root ordering hint
MaxOrder == 3
\* number of values in an enum list
MaxValues == 3
\* number of variables in a template
MaxVars == 2

-----------------------------------------------------------------------------
(* String helpers (package strings, sort).                                   *)

Nil == <<>>

HasPrefix(s, tok) == Len(s) > 0 /\ s[1] = tok

HasSuffix(s, tok) == Len(s) > 0 /\ s[Len(s)] = tok

Contains(s, tok) == \E i \in 1..Len(s) : s[i] = tok

\* index of the first occurrence of tok in s, 0 when there is none
Index(s, tok) ==
    IF Contains(s, tok)
    THEN CHOOSE i \in 1..Len(s) : s[i] = tok /\ \A j \in 1..(i - 1) : s[j] # tok
    ELSE 0

\* strings.Replace(s, tok, "", 1)
ReplaceFirst(s, tok) ==
    LET i == Index(s, tok)
    IN IF i = 0 THEN s ELSE SubSeq(s, 1, i - 1) \o SubSeq(s, i + 1, Len(s))

\* strings.ReplaceAll(s, old, new), old and new single tokens
ReplaceAll(s, old, new) == [i \in 1..Len(s) |-> IF s[i] = old THEN new ELSE s[i]]

RECURSIVE Split(_, _)
\* strings.Split(s, sep): always at least one part
Split(s, sep) ==
    LET i == Index(s, sep)
    IN IF i = 0 THEN <<s>>
       ELSE <<SubSeq(s, 1, i - 1)>> \o Split(SubSeq(s, i + 1, Len(s)), sep)

\* strings.SplitN(s, sep, 2)
SplitN2(s, sep) ==
    LET i == Index(s, sep)
    IN IF i = 0 THEN <<s>>
       ELSE <<SubSeq(s, 1, i - 1), SubSeq(s, i + 1, Len(s))>>

RECURSIVE TrimLeft(_)
TrimLeft(s) == IF Len(s) > 0 /\ s[1] = " " THEN TrimLeft(Tail(s)) ELSE s

RECURSIVE TrimRight(_)
TrimRight(s) ==
    IF Len(s) > 0 /\ s[Len(s)] = " " THEN TrimRight(SubSeq(s, 1, Len(s) - 1)) ELSE s

TrimSpace(s) == TrimRight(TrimLeft(s))

RECURSIVE Join(_, _)
\* strings.Join(parts, sep), sep a single token
Join(parts, sep) ==
    IF Len(parts) = 0 THEN <<>>
    ELSE IF Len(parts) = 1 THEN parts[1]
    ELSE parts[1] \o <<sep>> \o Join(Tail(parts), sep)

RECURSIVE Concat(_)
Concat(parts) == IF Len(parts) = 0 THEN <<>> ELSE parts[1] \o Concat(Tail(parts))

\* strings.ToUpper on one token: only the lower-case letters change
ToUpper(c) ==
    CASE c = "a" -> "A"
      [] c = "b" -> "B"
      [] c = "c" -> "C"
      [] OTHER -> c

\* byte order of the first byte of the tokens a schema key is made of
TokRank(c) ==
    CASE c = "(array)" -> 40
      [] c = "." -> 46
      [] c = "?" -> 63
      [] c = "_" -> 95
      [] c = "a" -> 97
      [] c = "b" -> 98
      [] c = "c" -> 99
      [] OTHER -> 0

RECURSIVE StrLess(_, _)
\* s < t in Go's string order
StrLess(s, t) ==
    IF Len(t) = 0 THEN FALSE
    ELSE IF Len(s) = 0 THEN TRUE
    ELSE IF s[1] = t[1] THEN StrLess(Tail(s), Tail(t))
    ELSE TokRank(s[1]) < TokRank(t[1])

RECURSIVE SortStrings(_)
\* sort.Strings applied to the elements of the set S
SortStrings(S) ==
    IF S = {} THEN <<>>
    ELSE LET m == CHOOSE x \in S : \A y \in S \ {x} : StrLess(x, y)
         IN <<m>> \o SortStrings(S \ {m})

Reverse(s) == [i \in 1..Len(s) |-> s[Len(s) + 1 - i]]

\* `for k := range m`: Go leaves the order unspecified; a run iterates the
\* keys in the order mapOrder picked for it.
RangeMap(S) == IF mapOrder = "asc" THEN SortStrings(S) ELSE Reverse(SortStrings(S))

SeqToSet(s) == {s[i] : i \in 1..Len(s)}

\* m[k] on a map[string][]string that may be nil: a missing key gives nil
Lookup(m, k) == IF k \in DOMAIN m THEN m[k] ELSE Nil

-----------------------------------------------------------------------------
(* internal/naming                                                           *)

RECURSIVE PascalParts(_)
PascalParts(parts) ==
    IF Len(parts) = 0 THEN <<>>
    ELSE LET part == parts[1]
         IN (IF Len(part) > 0 THEN <<ToUpper(part[1])>> \o Tail(part) ELSE <<>>)
            \o PascalParts(Tail(parts))

SnakeToPascalCase(s) == IF s = <<>> THEN s ELSE PascalParts(Split(s, "_"))

\* variant: `-` is kept in the value
EnumValueToConstName_KeepDash(enumTypeName, enumValue) ==
    enumTypeName \o SnakeToPascalCase(enumValue)

EnumValueToConstName(enumTypeName, enumValue) ==
    LET cleanValue == ReplaceAll(enumValue, "-", "_")
        pascalValue == SnakeToPascalCase(cleanValue)
    IN enumTypeName \o pascalValue

SchemaFieldToGoField(fieldName) == SnakeToPascalCase(fieldName)

-----------------------------------------------------------------------------
(* Decoded values.                                                           *)
(*                                                                           *)
(* A structured field definition (the `any` under a property name) is a      *)
(* record: isMap (it is a map[string]any), hasType/type (`type` is a string),*)
(* hasEnum/enumIsList/enum (`enum` key, whether it is a []any, its values),  *)
(* items (<<>> when the key is absent, else <<value>>), propsIsMap/props     *)
(* (`properties` is a map, name -> definition), required (the strings of the *)
(* `required` list).                                                         *)

NoProps == [n \in {} |-> <<>>]

\* results of the field parsers: (field, enums, direct struct, nested structs,
\* error) and the log of the handler calls made while computing them
Ret(field, enums, direct, nested, err, calls) ==
    [field |-> field, enums |-> enums, direct |-> direct, nested |-> nested,
     err |-> err, calls |-> calls]

\* one logged handler call: the field name and isRequired it was given, the
\* struct name of the enclosing record, the branch taken, the field returned
Call(dialect, key, parent, isRequired, shape, field) ==
    [dialect |-> dialect, key |-> key, parent |-> parent,
     isRequired |-> isRequired, shape |-> shape, field |-> field]

NoField ==
    [Name |-> <<>>, GoType |-> <<>>, JSONTag |-> <<>>,
     IsEnum |-> FALSE, IsObject |-> FALSE, IsPointer |-> FALSE]

-----------------------------------------------------------------------------
(* internal/parser/schema.go: shared helpers                                 *)

RECURSIVE FilterPresent(_, _)
\* the names of `order` that are keys of the map, in order's order
FilterPresent(order, keys) ==
    IF Len(order) = 0 THEN <<>>
    ELSE (IF order[1] \in keys THEN <<order[1]>> ELSE <<>>)
         \o FilterPresent(Tail(order), keys)

RECURSIVE AppendMissing(_, _)
\* append every element of `more` that the list does not hold yet
AppendMissing(names, more) ==
    IF Len(more) = 0 THEN names
    ELSE AppendMissing(IF more[1] \in SeqToSet(names) THEN names
                       ELSE Append(names, more[1]),
                       Tail(more))

\* variant of buildOrderedFieldNames that leaves out the sort of the fallback
buildOrderedFieldNames_Unsorted(schemaFields, order) ==
    IF Len(order) > 0
    THEN AppendMissing(FilterPresent(order, DOMAIN schemaFields),
                       RangeMap(DOMAIN schemaFields))
    ELSE RangeMap(DOMAIN schemaFields)

\* variant of buildOrderedFieldNames that ignores the preserved order
buildOrderedFieldNames_IgnoreOrder(schemaFields, order) ==
    SortStrings(DOMAIN schemaFields)

buildOrderedFieldNames(schemaFields, order) ==
    IF Len(order) > 0
    THEN AppendMissing(FilterPresent(order, DOMAIN schemaFields),
                       RangeMap(DOMAIN schemaFields))
    ELSE SortStrings(DOMAIN schemaFields)

\* the set of names n with requiredSet[n] = true
buildRequiredFieldsSet(schemaFields, required, role) ==
    IF role = SchemaTypeInput THEN DOMAIN schemaFields ELSE SeqToSet(required)

-----------------------------------------------------------------------------
(* internal/parser/jsonschema.go                                             *)

getJSONSchemaToGoTypeMap ==
    [t \in {"string", "number", "integer", "boolean", "array"} |->
        CASE t = "string" -> <<"string">>
          [] t = "number" -> <<"float64">>
          [] t = "integer" -> <<"int">>
          [] t = "boolean" -> <<"bool">>
          [] t = "array" -> <<"[]">>]

convertJSONSchemaTypeToGo(t) ==
    IF t \in DOMAIN getJSONSchemaToGoTypeMap
    THEN getJSONSchemaToGoTypeMap[t]
    ELSE <<"any">>

createBaseField(fieldName, isRequired, fieldDefMap) ==
    [NoField EXCEPT !.Name = SchemaFieldToGoField(fieldName),
                    !.JSONTag = fieldName]

getFieldTypeFromSchema(fieldDefMap) ==
    IF fieldDefMap.hasType THEN fieldDefMap.type ELSE "any"

hasEnum(fieldDefMap) == fieldDefMap.hasEnum

RECURSIVE EnumValues(_, _)
\* the loop over the enum list: fmt.Sprintf("%v", val) of a string value is
\* the string; every value gets its constant name
EnumValues(enumTypeName, enumSlice) ==
    IF Len(enumSlice) = 0 THEN <<>>
    ELSE <<[ConstName |-> EnumValueToConstName(enumTypeName, enumSlice[1]),
            Value |-> enumSlice[1]]>>
         \o EnumValues(enumTypeName, Tail(enumSlice))

parseJSONSchemaEnum(field, fieldType, fieldDefMap) ==
    IF ~fieldDefMap.enumIsList
    THEN [field |-> field, enum |-> <<>>, err |-> <<"enum values must be an array">>]
    ELSE LET enumTypeName == field.Name \o <<"Enum">>
             f1 == [field EXCEPT !.GoType = enumTypeName, !.IsEnum = TRUE]
             f2 == [f1 EXCEPT !.IsPointer = HasPrefix(f1.GoType, "*")]
         IN [field |-> f2,
             enum |-> <<[Name |-> enumTypeName, Type |-> <<"string">>,
                         Values |-> EnumValues(enumTypeName, fieldDefMap.enum)]>>,
             err |-> Nil]

parseJSONSchemaArrayEnum(field, itemsMap) ==
    IF ~itemsMap.enumIsList
    THEN [field |-> field, enum |-> <<>>, err |-> <<"enum values must be an array">>]
    ELSE LET enumTypeName == field.Name \o <<"Item", "Enum">>
             f1 == [field EXCEPT !.GoType = <<"[]">> \o enumTypeName,
                                 !.IsEnum = FALSE, !.IsPointer = FALSE]
         IN [field |-> f1,
             enum |-> <<[Name |-> enumTypeName, Type |-> <<"string">>,
                         Values |-> EnumValues(enumTypeName, itemsMap.enum)]>>,
             err |-> Nil]

parseJSONSchemaArray(field, fieldDefMap) ==
    IF Len(fieldDefMap.items) = 0 THEN [field EXCEPT !.GoType = <<"[]", "any">>]
    ELSE IF ~fieldDefMap.items[1].isMap THEN [field EXCEPT !.GoType = <<"[]", "any">>]
    ELSE IF ~fieldDefMap.items[1].hasType THEN [field EXCEPT !.GoType = <<"[]", "any">>]
    ELSE [field EXCEPT !.GoType =
              <<"[]">> \o convertJSONSchemaTypeToGo(fieldDefMap.items[1].type)]

\* variant of handleEnumField that never makes the enum field a pointer
handleEnumField_NoWrap(field, fieldType, fieldDefMap, isRequired, role) ==
    LET Finish(r) ==
            IF r.err # Nil THEN Ret(r.field, <<>>, <<>>, <<>>, r.err, {})
            ELSE Ret(r.field, r.enum, <<>>, <<>>, Nil, {})
    IN Finish(parseJSONSchemaEnum(field, fieldType, fieldDefMap))

\* variant of handleEnumField that makes a non-required enum field a pointer
\* whatever the role
handleEnumField_AnyRole(field, fieldType, fieldDefMap, isRequired, role) ==
    LET Finish(r) ==
            IF r.err # Nil THEN Ret(r.field, <<>>, <<>>, <<>>, r.err, {})
            ELSE Ret(IF ~isRequired
                     THEN [r.field EXCEPT !.GoType = <<"*">> \o @]
                     ELSE r.field,
                     r.enum, <<>>, <<>>, Nil, {})
    IN Finish(parseJSONSchemaEnum(field, fieldType, fieldDefMap))

handleEnumField(field, fieldType, fieldDefMap, isRequired, role) ==
    LET Finish(r) ==
            IF r.err # Nil THEN Ret(r.field, <<>>, <<>>, <<>>, r.err, {})
            ELSE Ret(IF role = SchemaTypeOutput /\ ~isRequired
                     THEN [r.field EXCEPT !.GoType = <<"*">> \o @]
                     ELSE r.field,
                     r.enum, <<>>, <<>>, Nil, {})
    IN Finish(parseJSONSchemaEnum(field, fieldType, fieldDefMap))

\* variant of handleSimpleField that makes a non-required field a pointer
\* whatever the role
handleSimpleField_AnyRole(field, fieldType, isRequired, role) ==
    LET SetPointer(f) == [f EXCEPT !.IsPointer = HasPrefix(f.GoType, "*")]
        Wrap1(f) == IF ~isRequired /\ ~HasPrefix(f.GoType, "[]")
                    THEN [f EXCEPT !.GoType = <<"*">> \o @]
                    ELSE f
    IN Ret(SetPointer(Wrap1([field EXCEPT !.GoType = convertJSONSchemaTypeToGo(fieldType)])),
           <<>>, <<>>, <<>>, Nil, {})

handleSimpleField(field, fieldType, isRequired, role) ==
    LET SetPointer(f) == [f EXCEPT !.IsPointer = HasPrefix(f.GoType, "*")]
        Wrap1(f) == IF role = SchemaTypeOutput /\ ~isRequired /\ ~HasPrefix(f.GoType, "[]")
                    THEN [f EXCEPT !.GoType = <<"*">> \o @]
                    ELSE f
    IN Ret(SetPointer(Wrap1([field EXCEPT !.GoType = convertJSONSchemaTypeToGo(fieldType)])),
           <<>>, <<>>, <<>>, Nil, {})

extractRequiredFields(fieldDefMap) == fieldDefMap.required

getPreservedOrderPropertyNames(properties, order) ==
    AppendMissing(FilterPresent(order, DOMAIN properties),
                  RangeMap(DOMAIN properties))

getAlphabeticalPropertyNames(properties) == SortStrings(DOMAIN properties)

getOrderedPropertyNames(properties, fieldJSONTag, nfo) ==
    LET fieldOrderForThisStruct == Lookup(nfo, fieldJSONTag)
    IN IF Len(fieldOrderForThisStruct) > 0
       THEN getPreservedOrderPropertyNames(properties, fieldOrderForThisStruct)
       ELSE getAlphabeticalPropertyNames(properties)

createNestedStruct(structName, fields) == [Name |-> structName, Fields |-> fields]

updateFieldForStruct(field, structName) ==
    LET f1 == [field EXCEPT !.GoType = structName, !.IsObject = TRUE]
    IN [f1 EXCEPT !.IsPointer = HasPrefix(f1.GoType, "*")]

RECURSIVE parseJSONSchemaFieldWithNestedRecursive(_, _, _, _, _, _)
RECURSIVE parseJSONSchemaObjectField(_, _, _, _)
RECURSIVE processNestedProperties(_, _, _, _, _, _)
RECURSIVE handleArrayField(_, _, _, _)
RECURSIVE handleObjectArrayField(_, _, _)
RECURSIVE handleObjectField(_, _, _, _, _)

\* returns (fields, enums, structs, err) and the call log
RECURSIVE processNestedProperties_SkipFailed(_, _, _, _, _, _)
\* variant: a nested field that fails is left out and the loop goes on
processNestedProperties_SkipFailed(properties, propNames, required, structName, role, nfo) ==
    IF Len(propNames) = 0
    THEN [fields |-> <<>>, enums |-> <<>>, structs |-> <<>>, err |-> Nil, calls |-> {}]
    ELSE LET Collect(r, rest) ==
                 IF r.err # Nil THEN rest
                 ELSE IF rest.err # Nil THEN rest
                 ELSE [fields |-> <<r.field>> \o rest.fields,
                       enums |-> r.enums \o rest.enums,
                       structs |-> r.direct \o r.nested \o rest.structs,
                       err |-> Nil,
                       calls |-> r.calls \cup rest.calls]
         IN Collect(parseJSONSchemaFieldWithNestedRecursive(
                        propNames[1], properties[propNames[1]],
                        propNames[1] \in SeqToSet(required), structName, role, nfo),
                    processNestedProperties_SkipFailed(properties, Tail(propNames), required,
                                                       structName, role, nfo))

processNestedProperties(properties, propNames, required, structName, role, nfo) ==
    IF Len(propNames) = 0
    THEN [fields |-> <<>>, enums |-> <<>>, structs |-> <<>>, err |-> Nil, calls |-> {}]
    ELSE LET Collect(r, rest) ==
                 IF r.err # Nil
                 THEN [fields |-> <<>>, enums |-> <<>>, structs |-> <<>>,
                       err |-> <<"failed to parse nested field">> \o r.err, calls |-> {}]
                 ELSE IF rest.err # Nil THEN rest
                 ELSE [fields |-> <<r.field>> \o rest.fields,
                       enums |-> r.enums \o rest.enums,
                       structs |-> r.direct \o r.nested \o rest.structs,
                       err |-> Nil,
                       calls |-> r.calls \cup rest.calls]
         IN Collect(parseJSONSchemaFieldWithNestedRecursive(
                        propNames[1], properties[propNames[1]],
                        propNames[1] \in SeqToSet(required), structName, role, nfo),
                    processNestedProperties(properties, Tail(propNames), required,
                                            structName, role, nfo))

parseJSONSchemaObjectField(field, fieldDefMap, role, nfo) ==
    IF ~fieldDefMap.propsIsMap
    THEN Ret([field EXCEPT !.GoType = <<"map[string]any">>], <<>>, <<>>, <<>>, Nil, {})
    ELSE LET structName == field.Name
             properties == fieldDefMap.props
             Build(n) ==
                 IF n.err # Nil THEN Ret(field, <<>>, <<>>, <<>>, n.err, {})
                 ELSE Ret(updateFieldForStruct(field, structName),
                          n.enums,
                          <<createNestedStruct(structName, n.fields)>>,
                          n.structs, Nil, n.calls)
         IN Build(processNestedProperties(
                      properties,
                      getOrderedPropertyNames(properties, field.JSONTag, nfo),
                      extractRequiredFields(fieldDefMap),
                      structName, role, nfo))

\* variant of handleObjectField that never prefixes the parent struct's name
handleObjectField_NoPrefix(field, fieldDefMap, parentStructName, role, nfo) ==
    parseJSONSchemaObjectField(field, fieldDefMap, role, nfo)

handleObjectField(field, fieldDefMap, parentStructName, role, nfo) ==
    LET f == IF parentStructName # <<>>
             THEN [field EXCEPT !.Name = parentStructName \o field.Name]
             ELSE field
    IN parseJSONSchemaObjectField(f, fieldDefMap, role, nfo)

\* variant: the enums found in the item record are not handed upward
handleObjectArrayField_DropEnums(field, itemsMap, role) ==
    LET itemStructName == field.Name \o <<"Item">>
        itemField == [NoField EXCEPT !.Name = itemStructName,
                                     !.JSONTag = field.JSONTag \o <<"_item">>]
        Finish(r) ==
            IF r.err # Nil
            THEN Ret(field, <<>>, <<>>, <<>>,
                     <<"failed to parse array item object">> \o r.err, {})
            ELSE Ret([field EXCEPT !.GoType = <<"[]">> \o itemStructName],
                     <<>>, r.direct, r.nested, Nil, r.calls)
    IN Finish(parseJSONSchemaObjectField(itemField, itemsMap, role, NoProps))

handleObjectArrayField(field, itemsMap, role) ==
    LET itemStructName == field.Name \o <<"Item">>
        itemField == [NoField EXCEPT !.Name = itemStructName,
                                     !.JSONTag = field.JSONTag \o <<"_item">>]
        Finish(r) ==
            IF r.err # Nil
            THEN Ret(field, <<>>, <<>>, <<>>,
                     <<"failed to parse array item object">> \o r.err, {})
            ELSE Ret([field EXCEPT !.GoType = <<"[]">> \o itemStructName],
                     r.enums, r.direct, r.nested, Nil, r.calls)
    IN Finish(parseJSONSchemaObjectField(itemField, itemsMap, role, NoProps))

\* variant: object items are treated like any other items
handleArrayField_NoItemRecord(field, fieldDefMap, isRequired, role) ==
    Ret(parseJSONSchemaArray(field, fieldDefMap), <<>>, <<>>, <<>>, Nil, {})

handleArrayField(field, fieldDefMap, isRequired, role) ==
    IF Len(fieldDefMap.items) = 0
    THEN Ret(parseJSONSchemaArray(field, fieldDefMap), <<>>, <<>>, <<>>, Nil, {})
    ELSE LET itemsMap == fieldDefMap.items[1]
             Finish(r) ==
                 IF r.err # Nil THEN Ret(field, <<>>, <<>>, <<>>, r.err, {})
                 ELSE Ret(r.field, r.enum, <<>>, <<>>, Nil, {})
         IN IF ~itemsMap.isMap
            THEN Ret(parseJSONSchemaArray(field, fieldDefMap), <<>>, <<>>, <<>>, Nil, {})
            ELSE IF itemsMap.hasType /\ itemsMap.type = "object" /\ itemsMap.propsIsMap
            THEN handleObjectArrayField(field, itemsMap, role)
            ELSE IF itemsMap.hasEnum
            THEN Finish(parseJSONSchemaArrayEnum(field, itemsMap))
            ELSE Ret(parseJSONSchemaArray(field, fieldDefMap), <<>>, <<>>, <<>>, Nil, {})

\* the branch of the switch a field definition takes
FieldShape(fieldDefMap) ==
    CASE hasEnum(fieldDefMap) -> "enum"
      [] ~hasEnum(fieldDefMap) /\ getFieldTypeFromSchema(fieldDefMap) = "array" -> "array"
      [] ~hasEnum(fieldDefMap) /\ getFieldTypeFromSchema(fieldDefMap) = "object" -> "object"
      [] OTHER -> "simple"

parseJSONSchemaFieldWithNestedRecursive(fieldName, fieldDef, isRequired, parentStructName, role, nfo) ==
    IF ~fieldDef.isMap
    THEN Ret(NoField, <<>>, <<>>, <<>>, <<"JSON schema field must be an object">>, {})
    ELSE LET Switch(field, fieldType, shape) ==
                 CASE shape = "enum" ->
                        handleEnumField(field, fieldType, fieldDef, isRequired, role)
                   [] shape = "array" ->
                        handleArrayField(field, fieldDef, isRequired, role)
                   [] shape = "object" ->
                        handleObjectField(field, fieldDef, parentStructName, role, nfo)
                   [] OTHER ->
                        handleSimpleField(field, fieldType, isRequired, role)
             Log(r, shape) ==
                 IF r.err # Nil THEN r
                 ELSE [r EXCEPT !.calls = @ \cup
                          {Call("json", fieldName, parentStructName, isRequired,
                                shape, r.field)}]
         IN Log(Switch(createBaseField(fieldName, isRequired, fieldDef),
                       getFieldTypeFromSchema(fieldDef),
                       FieldShape(fieldDef)),
                FieldShape(fieldDef))

RECURSIVE ParseRootFields(_, _, _, _, _)
\* the loop of parseJSONSchemaWithStructsAndFieldOrderAndNested over fieldNames
ParseRootFields(properties, fieldNames, requiredSet, role, nfo) ==
    IF Len(fieldNames) = 0
    THEN [fields |-> <<>>, enums |-> <<>>, structs |-> <<>>, err |-> Nil, calls |-> {}]
    ELSE LET Collect(r, rest) ==
                 IF r.err # Nil
                 THEN [fields |-> <<>>, enums |-> <<>>, structs |-> <<>>,
                       err |-> <<"failed to parse field">> \o r.err, calls |-> {}]
                 ELSE IF rest.err # Nil THEN rest
                 ELSE [fields |-> <<r.field>> \o rest.fields,
                       enums |-> r.enums \o rest.enums,
                       structs |-> r.direct \o r.nested \o rest.structs,
                       err |-> Nil,
                       calls |-> r.calls \cup rest.calls]
         IN Collect(parseJSONSchemaFieldWithNestedRecursive(
                        fieldNames[1], properties[fieldNames[1]],
                        fieldNames[1] \in requiredSet, <<>>, role, nfo),
                    ParseRootFields(properties, Tail(fieldNames), requiredSet, role, nfo))

parseJSONSchemaWithStructsAndFieldOrderAndNested(sch, required, role, order, nfo) ==
    IF sch.kind # "map"
    THEN [fields |-> <<>>, enums |-> <<>>, structs |-> <<>>,
          err |-> <<"schema must be an object">>, calls |-> {}]
    ELSE IF ~sch.propsIsMap
    THEN [fields |-> <<>>, enums |-> <<>>, structs |-> <<>>,
          err |-> <<"JSON schema must have properties">>, calls |-> {}]
    ELSE ParseRootFields(sch.props,
                         buildOrderedFieldNames(sch.props, order),
                         buildRequiredFieldsSet(sch.props, required, role),
                         role, nfo)

parseJSONSchemaWithStructsAndFieldOrder(sch, required, role, order) ==
    parseJSONSchemaWithStructsAndFieldOrderAndNested(sch, required, role, order, NoProps)

\* variant: only the key `type` marks a structured schema
IsJSONSchema_TypeOnly(sch) ==
    sch.kind = "map" /\ sch.hasType

IsJSONSchema(sch) ==
    sch.kind = "map" /\ (sch.hasType \/ sch.hasProperties)

-----------------------------------------------------------------------------
(* internal/parser/picoschema.go                                             *)
(*                                                                           *)
(* A compact field value is a record: isString, and str, its text as tokens  *)
(* (a type word such as "string", the punctuation "(enum", ")", ":", "[",     *)
(* "]", ",", " ", and single letters).                                        *)

expectedRegexMatchGroups == 3

getPicoschemaToGoTypeMap ==
    [t \in {<<"string">>, <<"number">>, <<"integer">>, <<"boolean">>,
            <<"any">>, <<"null">>} |->
        CASE t = <<"string">> -> <<"string">>
          [] t = <<"number">> -> <<"float64">>
          [] t = <<"integer">> -> <<"int">>
          [] t = <<"boolean">> -> <<"bool">>
          [] t = <<"any">> -> <<"any">>
          [] t = <<"null">> -> <<"*", "any">>]

convertPicoschemaTypeToGo(t) ==
    IF t \in DOMAIN getPicoschemaToGoTypeMap
    THEN getPicoschemaToGoTypeMap[t]
    ELSE <<"any">>

IsPicoschema(sch) == sch.kind = "map" /\ ~sch.hasType /\ ~sch.hasProperties

\* the substring "(array" of the source occurs in the modelled strings only as
\* the token "(array)"
detectPicoschemaFieldType(fieldStr) ==
    IF Contains(fieldStr, "(enum") /\ Contains(fieldStr, "[") /\ Contains(fieldStr, "]")
    THEN "enum"
    ELSE IF Contains(fieldStr, "(array)") /\ Contains(fieldStr, ":")
    THEN "array"
    ELSE "simple"

createBasePicoschemaField(fieldName) ==
    IF HasSuffix(fieldName, "?")
    THEN [NoField EXCEPT
             !.JSONTag = SubSeq(fieldName, 1, Len(fieldName) - 1),
             !.Name = SchemaFieldToGoField(SubSeq(fieldName, 1, Len(fieldName) - 1))]
    ELSE [NoField EXCEPT !.Name = SchemaFieldToGoField(fieldName),
                         !.JSONTag = fieldName]

\* (typeDescPart, description)
parseEnumFieldDefinition(fieldStr) ==
    LET Parts(closingBracket) ==
            LET Rest(typeDescPart, remaining) ==
                    IF closingBracket >= Len(fieldStr) THEN <<typeDescPart, <<>>>>
                    ELSE IF ~HasPrefix(remaining, ",") THEN <<typeDescPart, <<>>>>
                    ELSE <<typeDescPart, TrimSpace(Tail(remaining))>>
            IN IF closingBracket = 0 THEN <<fieldStr, <<>>>>
               ELSE Rest(TrimSpace(SubSeq(fieldStr, 1, closingBracket)),
                         TrimSpace(SubSeq(fieldStr, closingBracket + 1, Len(fieldStr))))
    IN Parts(Index(fieldStr, "]"))

parseArrayFieldDefinition(fieldStr) ==
    LET Desc(parts) ==
            IF Len(parts) <= 1 THEN <<TrimSpace(parts[1]), <<>>>>
            ELSE <<TrimSpace(parts[1]), TrimSpace(Join(Tail(parts), ","))>>
    IN Desc(Split(fieldStr, ","))

parseSimpleFieldDefinition(fieldStr) ==
    LET Desc(parts) ==
            IF Len(parts) <= 1 THEN <<TrimSpace(parts[1]), <<>>>>
            ELSE <<TrimSpace(parts[1]), TrimSpace(parts[2])>>
    IN Desc(SplitN2(fieldStr, ","))

parseFieldDefinition(fieldStr) ==
    LET fieldType == detectPicoschemaFieldType(fieldStr)
    IN CASE fieldType = "enum" -> parseEnumFieldDefinition(fieldStr)
         [] fieldType = "array" -> parseArrayFieldDefinition(fieldStr)
         [] OTHER -> parseSimpleFieldDefinition(fieldStr)

\* \w of the regular expression, on tokens
IsWordTok(c) ==
    c \in {"string", "number", "integer", "boolean", "any", "null", "foo",
           "a", "b", "c", "_", "1", "2"}

\* first index >= i of s whose token satisfies / does not satisfy a test
FirstNonWord(s, i) ==
    IF \E j \in i..Len(s) : ~IsWordTok(s[j])
    THEN CHOOSE j \in i..Len(s) : ~IsWordTok(s[j]) /\ \A k \in i..(j - 1) : IsWordTok(s[k])
    ELSE 0

FirstTok(s, i, tok) ==
    IF \E j \in i..Len(s) : s[j] = tok
    THEN CHOOSE j \in i..Len(s) : s[j] = tok /\ \A k \in i..(j - 1) : s[k] # tok
    ELSE 0

FirstNonSpace(s, i) ==
    IF \E j \in i..Len(s) : s[j] # " "
    THEN CHOOSE j \in i..Len(s) : s[j] # " " /\ \A k \in i..(j - 1) : s[k] = " "
    ELSE 0

\* the match of (\w+)\(enum[^)]*\):\s*\[([^\]]+)\] that starts at token i:
\* <<full, group 1, group 2>>, or <<>> when there is none
EnumMatchAt(s, i) ==
    LET Groups(j, m, n) ==
            IF n > m + 1 /\ m > 0
            THEN <<SubSeq(s, i, n), SubSeq(s, i, j - 1), SubSeq(s, m + 1, n - 1)>>
            ELSE <<>>
        Values(j, m) ==
            Groups(j, m, IF m > 0 /\ s[m] = "[" THEN FirstTok(s, m + 1, "]") ELSE 0)
        Colon(j, k) ==
            Values(j, IF k > 0 /\ k < Len(s) /\ s[k + 1] = ":"
                      THEN FirstNonSpace(s, k + 2) ELSE 0)
        Marker(j) ==
            Colon(j, IF j > i /\ s[j] = "(enum" THEN FirstTok(s, j + 1, ")") ELSE 0)
    IN Marker(FirstNonWord(s, i))

\* re.FindStringSubmatch: the leftmost match, nil when there is none
FindEnumSubmatch(s) ==
    IF \E i \in 1..Len(s) : EnumMatchAt(s, i) # <<>>
    THEN EnumMatchAt(s, CHOOSE i \in 1..Len(s) :
                            /\ EnumMatchAt(s, i) # <<>>
                            /\ \A h \in 1..(i - 1) : EnumMatchAt(s, h) = <<>>)
    ELSE <<>>

RECURSIVE PicoEnumValues(_, _)
\* the loop over the split value list: each value is trimmed
PicoEnumValues(enumTypeName, valueStrs) ==
    IF Len(valueStrs) = 0 THEN <<>>
    ELSE LET value == TrimSpace(valueStrs[1])
         IN <<[ConstName |-> EnumValueToConstName(enumTypeName, value),
               Value |-> value]>>
            \o PicoEnumValues(enumTypeName, Tail(valueStrs))

parsePicoschemaEnum(field, typeDescPart) ==
    LET enumTypeName == field.Name \o <<"Enum">>
        SetPointer(f) == [f EXCEPT !.IsPointer = HasPrefix(f.GoType, "*")]
        Build(matches) ==
            IF Len(matches) # expectedRegexMatchGroups
            THEN [field |-> field, enum |-> <<>>, err |-> <<"invalid enum format">>]
            ELSE [field |-> SetPointer([field EXCEPT !.GoType = enumTypeName,
                                                     !.IsEnum = TRUE]),
                  enum |-> <<[Name |-> enumTypeName,
                              Type |-> convertPicoschemaTypeToGo(matches[2]),
                              Values |-> PicoEnumValues(enumTypeName,
                                                        Split(matches[3], ","))]>>,
                  err |-> Nil]
    IN Build(FindEnumSubmatch(typeDescPart))

parsePicoschemaArray(field, typeDescPart, parts) ==
    IF Len(parts) < 1
    THEN [field |-> field, err |-> <<"array field missing element type">>]
    ELSE LET elementType == TrimSpace(parts[1])
         IN [field |-> [field EXCEPT
                           !.GoType = <<"[]">> \o convertPicoschemaTypeToGo(elementType),
                           !.IsPointer = FALSE],
             err |-> Nil]

handlePicoschemaEnum(field, typeDescPart, isRequired, role) ==
    LET Finish(r) ==
            IF r.err # Nil THEN r
            ELSE IF role = SchemaTypeOutput /\ ~isRequired
            THEN [r EXCEPT !.field.GoType = <<"*">> \o @]
            ELSE r
    IN Finish(parsePicoschemaEnum(field, typeDescPart))

handlePicoschemaArray(field, fieldName, fieldStr, typeDescPart) ==
    LET Clean(cleanFieldName) ==
            [field EXCEPT !.Name = SchemaFieldToGoField(cleanFieldName),
                          !.JSONTag = cleanFieldName]
        Finish(r) == [field |-> r.field, enum |-> <<>>, err |-> r.err]
    IN Finish(parsePicoschemaArray(Clean(ReplaceFirst(fieldName, "(array)")),
                                   typeDescPart, Split(fieldStr, ",")))

handleSimplePicoschemaType(field, typeDescPart, isRequired, role) ==
    LET SetPointer(f) == [f EXCEPT !.IsPointer = HasPrefix(f.GoType, "*")]
        Wrap1(f) == IF role = SchemaTypeOutput /\ ~isRequired /\ ~HasPrefix(f.GoType, "[]")
                    THEN [f EXCEPT !.GoType = <<"*">> \o @]
                    ELSE f
    IN SetPointer(Wrap1([field EXCEPT !.GoType = convertPicoschemaTypeToGo(typeDescPart)]))

\* the branch parsePicoschemaField takes for a string value
PicoShape(fieldName, typeDescPart) ==
    IF Contains(typeDescPart, "(enum") THEN "enum"
    ELSE IF Contains(fieldName, "(array)") THEN "array"
    ELSE "simple"

\* returns (field, enum, err) and the branch taken
parsePicoschemaField(fieldName, fieldDef, isRequired, role) ==
    IF ~fieldDef.isString
    THEN [field |-> NoField, enum |-> <<>>, err |-> <<"picoschema field must be a string">>,
          shape |-> "none"]
    ELSE LET fieldStr == fieldDef.str
             Switch(field, typeDescPart) ==
                 CASE PicoShape(fieldName, typeDescPart) = "enum" ->
                        handlePicoschemaEnum(field, typeDescPart, isRequired, role)
                   [] PicoShape(fieldName, typeDescPart) = "array" ->
                        handlePicoschemaArray(field, fieldName, fieldStr, typeDescPart)
                   [] OTHER ->
                        [field |-> handleSimplePicoschemaType(field, typeDescPart,
                                                              isRequired, role),
                         enum |-> <<>>, err |-> Nil]
             Shaped(r, typeDescPart) ==
                 [field |-> r.field, enum |-> r.enum, err |-> r.err,
                  shape |-> PicoShape(fieldName, typeDescPart)]
             Parsed(typeDescPart) ==
                 Shaped(Switch(createBasePicoschemaField(fieldName), typeDescPart),
                        typeDescPart)
         IN Parsed(parseFieldDefinition(fieldStr)[1])

RECURSIVE ParsePicoFields(_, _, _, _)
\* the loop of parsePicoschemaWithFieldOrder over fieldNames
ParsePicoFields(schemaMap, fieldNames, requiredSet, role) ==
    IF Len(fieldNames) = 0
    THEN [fields |-> <<>>, enums |-> <<>>, structs |-> <<>>, err |-> Nil, calls |-> {}]
    ELSE LET fieldName == fieldNames[1]
             isRequired == fieldName \in requiredSet
             Collect(r, rest) ==
                 IF r.err # Nil
                 THEN [fields |-> <<>>, enums |-> <<>>, structs |-> <<>>,
                       err |-> <<"failed to parse field">> \o r.err, calls |-> {}]
                 ELSE IF rest.err # Nil THEN rest
                 ELSE [fields |-> <<r.field>> \o rest.fields,
                       enums |-> r.enum \o rest.enums,
                       structs |-> <<>>,
                       err |-> Nil,
                       calls |-> {Call("pico", fieldName, <<>>, isRequired,
                                       r.shape, r.field)} \cup rest.calls]
         IN Collect(parsePicoschemaField(fieldName, schemaMap[fieldName], isRequired, role),
                    ParsePicoFields(schemaMap, Tail(fieldNames), requiredSet, role))

parsePicoschemaWithFieldOrder(sch, required, role, order) ==
    IF sch.kind # "map"
    THEN [fields |-> <<>>, enums |-> <<>>, structs |-> <<>>,
          err |-> <<"schema must be an object">>, calls |-> {}]
    ELSE ParsePicoFields(sch.entries,
                         buildOrderedFieldNames(sch.entries, order),
                         buildRequiredFieldsSet(sch.entries, required, role),
                         role)

-----------------------------------------------------------------------------
(* internal/parser/schema.go: entry points                                   *)

NoResult == [fields |-> <<>>, enums |-> <<>>, structs |-> <<>>, err |-> Nil, calls |-> {}]

ParseSchemaWithStructsAndFieldOrder(sch, required, role, order) ==
    IF sch.kind = "nil" THEN NoResult
    ELSE IF IsPicoschema(sch)
    THEN parsePicoschemaWithFieldOrder(sch, required, role, order)
    ELSE IF IsJSONSchema(sch)
    THEN parseJSONSchemaWithStructsAndFieldOrder(sch, required, role, order)
    ELSE [NoResult EXCEPT !.err = <<"unsupported schema format">>]

ParseSchemaWithStructs(sch, required, role) ==
    ParseSchemaWithStructsAndFieldOrder(sch, required, role, Nil)

ParseJSONSchemaWithNestedFieldOrder(sch, required, role, order, nfo) ==
    parseJSONSchemaWithStructsAndFieldOrderAndNested(sch, required, role, order, nfo)

-----------------------------------------------------------------------------
(* internal/parser/parser.go: ordering hints read from the YAML document     *)
(*                                                                           *)
(* A yaml.Node is a record: kind ("scalar", "mapping", "sequence"), value    *)
(* (the text of a scalar) and content (for a mapping the key and value nodes *)
(* alternating, in document order).                                          *)

NilNode == [kind |-> "nil", value |-> <<>>, content |-> <<>>]

\* variant: any mapping with a `properties` mapping counts as an object
isObjectTypeNode_AnyType(node) ==
    /\ node.kind = "mapping"
    /\ \E i \in 1..Len(node.content) :
          /\ i % 2 = 1 /\ i + 1 <= Len(node.content)
          /\ node.content[i].kind = "scalar"
          /\ node.content[i].value = <<"properties">>
          /\ node.content[i + 1].kind = "mapping"

isObjectTypeNode(node) ==
    /\ node.kind = "mapping"
    /\ \E i \in 1..Len(node.content) :
          /\ i % 2 = 1 /\ i + 1 <= Len(node.content)
          /\ node.content[i].kind = "scalar"
          /\ node.content[i].value = <<"type">>
          /\ node.content[i + 1].kind = "scalar"
          /\ node.content[i + 1].value = <<"object">>
    /\ \E i \in 1..Len(node.content) :
          /\ i % 2 = 1 /\ i + 1 <= Len(node.content)
          /\ node.content[i].kind = "scalar"
          /\ node.content[i].value = <<"properties">>
          /\ node.content[i + 1].kind = "mapping"

\* the value of the first key `properties` that is a mapping, or NilNode
findPropertiesNode(node) ==
    IF node.kind # "mapping" THEN NilNode
    ELSE LET hits == {i \in 1..Len(node.content) :
                         /\ i % 2 = 1 /\ i + 1 <= Len(node.content)
                         /\ node.content[i].value = <<"properties">>
                         /\ node.content[i + 1].kind = "mapping"}
         IN IF hits = {} THEN NilNode
            ELSE node.content[(CHOOSE i \in hits : \A j \in hits : i <= j) + 1]

RECURSIVE ScalarKeysFrom(_, _)
ScalarKeysFrom(content, i) ==
    IF i > Len(content) THEN <<>>
    ELSE (IF content[i].kind = "scalar" THEN <<content[i].value>> ELSE <<>>)
         \o ScalarKeysFrom(content, i + 2)

extractFieldNamesFromPropertiesNode(node) ==
    IF node.kind # "mapping" THEN <<>> ELSE ScalarKeysFrom(node.content, 1)

\* nestedOrders[path] = names
SetOrder(nestedOrders, path, names) ==
    [q \in DOMAIN nestedOrders \cup {path} |-> IF q = path THEN names ELSE nestedOrders[q]]

RECURSIVE extractNestedFieldOrdersRecursive(_, _, _)
RECURSIVE ExtractFromProperties(_, _, _, _)
\* the loop over propertiesNode.Content, from index i
ExtractFromProperties(propertiesNode, i, currentPath, nestedOrders) ==
    IF i + 1 > Len(propertiesNode.content) THEN nestedOrders
    ELSE LET keyNode == propertiesNode.content[i]
             valueNode == propertiesNode.content[i + 1]
             nestedPath == IF currentPath = <<>> THEN keyNode.value
                           ELSE currentPath \o <<".">> \o keyNode.value
         IN ExtractFromProperties(
                propertiesNode, i + 2, currentPath,
                IF /\ keyNode.kind = "scalar" /\ valueNode.kind = "mapping"
                   /\ isObjectTypeNode(valueNode)
                THEN extractNestedFieldOrdersRecursive(valueNode, nestedPath, nestedOrders)
                ELSE nestedOrders)

extractNestedFieldOrdersRecursive(node, currentPath, nestedOrders) ==
    IF node.kind # "mapping" THEN nestedOrders
    ELSE IF findPropertiesNode(node) = NilNode THEN nestedOrders
    ELSE ExtractFromProperties(
             findPropertiesNode(node), 1, currentPath,
             IF /\ Len(extractFieldNamesFromPropertiesNode(findPropertiesNode(node))) > 0
                /\ currentPath # <<>>
             THEN SetOrder(nestedOrders, currentPath,
                           extractFieldNamesFromPropertiesNode(findPropertiesNode(node)))
             ELSE nestedOrders)

\* from the schema node that findSchemaNode returns (NilNode: no schema)
extractNestedSchemaFieldOrder(schemaNode) ==
    IF schemaNode = NilNode THEN [nestedOrders |-> <<>>, err |-> Nil]
    ELSE [nestedOrders |-> extractNestedFieldOrdersRecursive(schemaNode, <<>>, <<>>),
          err |-> Nil]

-----------------------------------------------------------------------------
(* internal/template/validator.go                                            *)

isSpecialVariable(variable) ==
    variable \in {<<"this">>, <<"@index">>, <<"@key">>, <<"@first">>, <<"@last">>}

\* the keys of schema["properties"] when that is a map
schemaProps(sch) ==
    IF sch.hasProperties /\ sch.propsIsMap THEN DOMAIN sch.props ELSE {}

VariableError(variable) ==
    [Message |-> <<"Variable '">> \o variable \o <<"' not found in input schema">>,
     Type |-> "variable"]

\* one pass of the loop over the variables: the errors it appends
CheckVariable(variable, sch) ==
    LET rootVar == Split(variable, ".")[1]
    IN IF isSpecialVariable(rootVar) THEN <<>>
       ELSE IF rootVar \notin schemaProps(sch) THEN <<VariableError(variable)>>
       ELSE <<>>

RECURSIVE ValidateVariablesAgainstSchema(_, _)
ValidateVariablesAgainstSchema(vs, sch) ==
    IF Len(vs) = 0 THEN <<>>
    ELSE CheckVariable(vs[1], sch) \o ValidateVariablesAgainstSchema(Tail(vs), sch)

-----------------------------------------------------------------------------
(* Input values the parser is called with.                                   *)

BaseDef ==
    [isMap |-> TRUE, hasType |-> FALSE, type |-> "", hasEnum |-> FALSE,
     enumIsList |-> FALSE, enum |-> <<>>, items |-> <<>>,
     propsIsMap |-> FALSE, props |-> NoProps, required |-> <<>>]

\* a field definition that is not a map (a scalar)
NonMapDef == [BaseDef EXCEPT !.isMap = FALSE]

\* {type: t}
Prim(t) == [BaseDef EXCEPT !.hasType = TRUE, !.type = t]

\* {type: string, enum: vals}
EnumDef(vals) ==
    [Prim("string") EXCEPT !.hasEnum = TRUE, !.enumIsList = TRUE, !.enum = vals]

\* {type: string, enum: "not a list"}
BadEnumDef == [Prim("string") EXCEPT !.hasEnum = TRUE]

\* {type: array, items: ...}; its is <<>> (no items key) or <<value>>
Arr(its) == [Prim("array") EXCEPT !.items = its]

\* {type: object, properties: props, required: req}
Obj(props, req) ==
    [Prim("object") EXCEPT !.propsIsMap = TRUE, !.props = props, !.required = req]

\* {type: array, items: {type: object, properties: props, required: req}}
ArrObj(props, req) == Arr(<<Obj(props, req)>>)

Wrap(kind, props, req) == IF kind = "obj" THEN Obj(props, req) ELSE ArrObj(props, req)

NameA == <<"a">>
NameB == <<"b">>
NameAB == <<"a", "_", "b">>

AB == <<<<"a">>, <<"b">>>>

One(name, def) == [n \in {name} |-> def]

Two(n1, d1, n2, d2) == [n \in {n1, n2} |-> IF n = n1 THEN d1 ELSE d2]

\* a root map with a `properties` map
JSONRoot(props) ==
    [kind |-> "map", hasType |-> TRUE, hasProperties |-> TRUE,
     propsIsMap |-> TRUE, props |-> props, entries |-> NoProps]

\* a root map without `type` and `properties`: compact dialect
PicoRoot(entries) ==
    [kind |-> "map", hasType |-> FALSE, hasProperties |-> FALSE,
     propsIsMap |-> FALSE, props |-> NoProps, entries |-> entries]

\* roots that are no schema map: nil, a scalar, {type: object} alone
OddRoots ==
    {[PicoRoot(NoProps) EXCEPT !.kind = "nil"],
     [PicoRoot(NoProps) EXCEPT !.kind = "scalar"],
     [PicoRoot(NoProps) EXCEPT !.hasType = TRUE]}

Str(toks) == [isString |-> TRUE, str |-> toks]

\* ---- family 1: every field shape, on a spine of nested records ----

PrimDefs ==
    {Prim(t) : t \in {"string", "number", "integer", "boolean", "null"}} \cup {BaseDef}

LeafDefs ==
    PrimDefs \cup
    {EnumDef(AB), [EnumDef(AB) EXCEPT !.hasType = FALSE], BadEnumDef,
     Prim("object"), NonMapDef,
     Arr(<<>>), Arr(<<NonMapDef>>), Arr(<<BaseDef>>), Arr(<<Prim("string")>>),
     Arr(<<Prim("null")>>), Arr(<<Prim("array")>>), Arr(<<Prim("object")>>),
     Arr(<<EnumDef(AB)>>), Arr(<<BadEnumDef>>)}

RECURSIVE SpineDefs(_)
\* a leaf, or an object / array of objects with the one property `a`
SpineDefs(d) ==
    IF d = 0 THEN LeafDefs
    ELSE LeafDefs \cup
         {Wrap(kind, One(NameA, x), req) :
             kind \in {"obj", "arr"}, x \in SpineDefs(d - 1), req \in {<<>>, <<NameA>>}}

SpineRoots ==
    {JSONRoot(One(NameA, x)) : x \in SpineDefs(MaxNest)} \cup
    {JSONRoot(Two(NameA, x, NameB, Prim("string"))) : x \in SpineDefs(MaxNest)}

PicoKeys ==
    {NameA \o sfx : sfx \in {<<>>, <<"?">>, <<"(array)">>,
                             <<"(array)", "?">>, <<"?", "(array)">>}}

PicoValues ==
    {Str(<<t>>) : t \in {"string", "number", "integer", "boolean", "any", "null", "foo"}}
    \cup
    {Str(<<"integer", ",", " ", "c">>),
     Str(<<"string", "(enum", ")", ":", " ", "[", "a", ",", " ", "b", "]">>),
     Str(<<"string", "(enum", ")", ":", " ", "[", "a", ",", "b", "]", ",", " ", "c">>),
     Str(<<"string", "(enum", ")">>),
     [isString |-> FALSE, str |-> <<>>]}

PicoRoots ==
    {PicoRoot(One(k, v)) : k \in PicoKeys, v \in PicoValues} \cup
    {PicoRoot(Two(k, v, NameB, Str(<<"string">>))) : k \in PicoKeys, v \in PicoValues}

InitShapes ==
    /\ schema \in SpineRoots \cup PicoRoots \cup OddRoots
    /\ requiredFields \in
          IF schema \in PicoRoots
          THEN {<<>>, <<NameA>>, <<NameA \o <<"?">>>>, <<NameA \o <<"(array)">>>>, <<NameB>>}
          ELSE {<<>>, <<NameA>>}
    /\ schemaType \in {SchemaTypeInput, SchemaTypeOutput}
    /\ fieldOrder = Nil
    /\ nestedFieldOrder = NoProps
    /\ mapOrder = "asc"
    /\ pc = "ready"
    /\ entry = "none"
    /\ result = NoResult
    /\ variables = <<>>

\* ---- family 2: names, with sibling records at two levels ----

NameLeafDefs == {Prim("string"), EnumDef(AB), Arr(<<Prim("string")>>)}

RECURSIVE ChainDefs(_)
\* objects / arrays of objects nested d deep, each with the one property `a`
ChainDefs(d) ==
    IF d = 0 THEN {}
    ELSE {Wrap(kind, One(NameA, x), <<>>) :
             kind \in {"obj", "arr"}, x \in {Prim("string")} \cup ChainDefs(d - 1)}

\* maps with one or two of the keys n1, n2 and values in D
Maps(n1, n2, D) ==
    {One(n1, x) : x \in D} \cup {One(n2, x) : x \in D}
    \cup {Two(n1, x[1], n2, x[2]) : x \in D \X D}

InnerDefs == NameLeafDefs \cup ChainDefs(MaxNest - 1)

OuterDefs ==
    NameLeafDefs \cup
    {Wrap(kind, props, <<>>) : kind \in {"obj", "arr"}, props \in Maps(NameA, NameB, InnerDefs)}

NameRoots == {JSONRoot(props) : props \in Maps(NameA, NameAB, OuterDefs)}

InitNames ==
    /\ schema \in NameRoots
    /\ requiredFields = <<>>
    /\ schemaType = SchemaTypeOutput
    /\ fieldOrder = Nil
    /\ nestedFieldOrder = NoProps
    /\ mapOrder = "asc"
    /\ pc = "ready"
    /\ entry = "none"
    /\ result = NoResult
    /\ variables = <<>>

\* ---- family 3: nested objects with ordering hints ----

OrderInnerDefs ==
    {Prim("string")} \cup {Obj(props, <<>>) : props \in Maps(NameA, NameB, {Prim("string")})}

OrderOuterDefs == {Obj(props, <<>>) : props \in Maps(NameA, NameB, OrderInnerDefs)}

OrderRoots ==
    {JSONRoot(One(NameA, x)) : x \in OrderOuterDefs} \cup
    {JSONRoot(Two(NameA, x, NameB, Prim("string"))) : x \in OrderOuterDefs}

HintKeys == {NameA, NameB, <<"a", ".", "a">>, <<"a", ".", "b">>}

HintOrders == {<<NameA, NameB>>, <<NameB, NameA>>, <<NameB>>}

HintTables ==
    UNION {[D -> HintOrders] : D \in {K \in SUBSET HintKeys : Cardinality(K) <= MaxHints}}

InitOrder ==
    /\ schema \in OrderRoots
    /\ requiredFields = <<>>
    /\ schemaType = SchemaTypeOutput
    /\ fieldOrder \in {Nil, <<NameB, NameA>>}
    /\ nestedFieldOrder \in HintTables
    /\ mapOrder \in {"asc", "desc"}
    /\ pc = "ready"
    /\ entry = "none"
    /\ result = NoResult
    /\ variables = <<>>

\* ---- family 4: root ordering hints, both dialects ----

NameC == <<"c">>

\* structured roots over the keys a, b, a_b
HintJSONDefs ==
    (NameA :> EnumDef(AB)) @@ (NameB :> Prim("string")) @@ (NameAB :> Prim("integer"))

\* compact roots over the keys a, b?, a_b(array)
HintPicoDefs ==
    (NameA :> Str(<<"string", "(enum", ")", ":", " ", "[", "a", ",", " ", "b", "]">>))
    @@ (<<"b", "?">> :> Str(<<"string">>))
    @@ (<<"a", "_", "b", "(array)">> :> Str(<<"integer">>))

\* the maps that keep a non-empty subset of the keys of defs
SubMaps(defs) == {[k \in K |-> defs[k]] : K \in (SUBSET DOMAIN defs) \ {{}}}

\* the lists of at most n names of S
Lists(S, n) == UNION {[1..k -> S] : k \in 0..n}

InitHints ==
    /\ \/ /\ schema \in {JSONRoot(props) : props \in SubMaps(HintJSONDefs)}
          /\ fieldOrder \in Lists(DOMAIN HintJSONDefs \cup {NameC}, MaxOrder)
       \/ /\ schema \in {PicoRoot(entries) : entries \in SubMaps(HintPicoDefs)}
          /\ fieldOrder \in Lists(DOMAIN HintPicoDefs \cup {NameC}, MaxOrder)
    /\ requiredFields = <<>>
    /\ schemaType = SchemaTypeOutput
    /\ nestedFieldOrder = NoProps
    /\ mapOrder \in {"asc", "desc"}
    /\ pc = "ready"
    /\ entry = "none"
    /\ result = NoResult
    /\ variables = <<>>

\* ---- family 5: root values of every kind, and fields that fail ----

RECURSIVE FailDefs(_)
\* definitions whose parse fails, the failing part up to d records deep, with a
\* sibling that parses before or after it
FailDefs(d) ==
    {NonMapDef, BadEnumDef, Arr(<<BadEnumDef>>)} \cup
    (IF d = 0 THEN {}
     ELSE {Wrap(kind, Two(NameA, EnumDef(AB), NameB, x), <<>>) :
              kind \in {"obj", "arr"}, x \in FailDefs(d - 1)}
          \cup
          {Wrap(kind, Two(NameA, x, NameB, EnumDef(AB)), <<>>) :
              kind \in {"obj", "arr"}, x \in FailDefs(d - 1)})

SoundDefs == {Prim("string"), EnumDef(AB), Obj(One(NameA, EnumDef(AB)), <<>>)}

\* property maps with a sound field a or b and a second field of any kind
MixedProps ==
    {Two(NameA, g, NameB, x) : g \in {Prim("string"), EnumDef(AB)},
                               x \in FailDefs(MaxNest) \cup SoundDefs}
    \cup
    {Two(NameA, x, NameB, g) : g \in {Prim("string"), EnumDef(AB)},
                               x \in FailDefs(MaxNest) \cup SoundDefs}

MixedPicoValues ==
    {Str(<<"string">>),
     Str(<<"string", "(enum", ")", ":", " ", "[", "a", ",", " ", "b", "]">>),
     Str(<<"string", "(enum", ")", ":", " ", "a">>),
     [isString |-> FALSE, str |-> <<>>]}

\* root maps: with and without the keys `type` and `properties`, the latter
\* a map or not
MapRoots ==
    {[JSONRoot(props) EXCEPT !.hasType = t] : props \in MixedProps, t \in BOOLEAN}
    \cup
    {[JSONRoot(NoProps) EXCEPT !.hasType = t, !.propsIsMap = FALSE] : t \in BOOLEAN}
    \cup
    {[PicoRoot(NoProps) EXCEPT !.hasType = TRUE]}
    \cup
    {PicoRoot(Two(NameA, v, NameB, w)) : v \in MixedPicoValues, w \in MixedPicoValues}

\* roots that are no string-keyed map: nil, a scalar, a sequence
NonMapRoots == {[PicoRoot(NoProps) EXCEPT !.kind = k] : k \in {"nil", "scalar", "seq"}}

InitRoots ==
    /\ schema \in MapRoots \cup NonMapRoots
    /\ requiredFields \in {<<>>, <<NameA, NameB>>}
    /\ schemaType = SchemaTypeOutput
    /\ fieldOrder \in {Nil, <<NameB, NameA>>}
    /\ nestedFieldOrder = NoProps
    /\ mapOrder = "asc"
    /\ pc = "ready"
    /\ entry = "none"
    /\ result = NoResult
    /\ variables = <<>>

\* ---- family 6: enum value lists ----

\* literal values with `-`, `_` and both letter cases
EnumLiterals ==
    {<<"a">>, <<"b">>, <<"A">>, <<"a", "b">>, <<"a", "-", "b">>, <<"a", "_", "b">>,
     <<"a", "b", "-", "c", "a">>, <<"-", "a">>}

EnumLists == Lists(EnumLiterals, MaxValues) \ {<<>>}

RECURSIVE CommaList(_)
\* the values of a compact enum, separated by `, `
CommaList(vals) ==
    IF Len(vals) = 1 THEN vals[1]
    ELSE vals[1] \o <<",", " ">> \o CommaList(Tail(vals))

PicoEnum(vals) == Str(<<"string", "(enum", ")", ":", " ", "[">> \o CommaList(vals) \o <<"]">>)

EnumRoots ==
    {JSONRoot(One(NameA, EnumDef(vals))) : vals \in EnumLists}
    \cup {JSONRoot(One(NameA, Arr(<<EnumDef(vals)>>))) : vals \in EnumLists}
    \cup {PicoRoot(One(NameA, PicoEnum(vals))) : vals \in EnumLists}

InitEnums ==
    /\ schema \in EnumRoots
    /\ requiredFields = <<>>
    /\ schemaType = SchemaTypeOutput
    /\ fieldOrder = Nil
    /\ nestedFieldOrder = NoProps
    /\ mapOrder = "asc"
    /\ pc = "ready"
    /\ entry = "none"
    /\ result = NoResult
    /\ variables = <<>>

\* ---- family 7: compact schemas of fields that both dialects can express ----

TwinTypes == {"string", "number", "integer", "boolean", "any", "null"}

\* compact values: a primitive type, or an enum over a base type
TwinValues ==
    {Str(<<t>>) : t \in TwinTypes}
    \cup {Str(<<t, "(enum", ")", ":", " ", "[">> \o CommaList(AB) \o <<"]">>) :
             t \in {"string", "integer"}}

\* compact entries: a name with any value, or a name with the array marker
\* and a primitive element type
TwinEntries(n) ==
    {<<n, v>> : v \in TwinValues}
    \cup {<<n \o <<"(array)">>, Str(<<t>>)>> : t \in TwinTypes}

TwinRoots ==
    {PicoRoot(One(e[1], e[2])) : e \in TwinEntries(NameA)}
    \cup {PicoRoot(Two(e1[1], e1[2], e2[1], e2[2])) :
             e1 \in TwinEntries(NameA), e2 \in TwinEntries(NameB)}

InitTwins ==
    /\ schema \in TwinRoots
    /\ requiredFields \in {<<>>, <<NameA>>}
    /\ schemaType \in {SchemaTypeInput, SchemaTypeOutput}
    /\ fieldOrder \in {Nil, <<NameB, NameA>>}
    /\ nestedFieldOrder = NoProps
    /\ mapOrder = "asc"
    /\ pc = "ready"
    /\ entry = "none"
    /\ result = NoResult
    /\ variables = <<>>

\* ---- family 8: YAML schema nodes ----

YScalar(v) == [kind |-> "scalar", value |-> v, content |-> <<>>]

\* a mapping node of the keys and values given alternately
YMapping(content) == [kind |-> "mapping", value |-> <<>>, content |-> content]

YKey(k) == YScalar(k)

\* {type: t}
YType(t) == YMapping(<<YKey(<<"type">>), YScalar(<<t>>)>>)

\* {type: object, properties: props}
YObject(props) ==
    YMapping(<<YKey(<<"type">>), YScalar(<<"object">>), YKey(<<"properties">>), props>>)

\* nodes that are no object with properties, or an object without any
YLeaves ==
    {YType("string"),
     YScalar(<<"string">>),
     YType("object"),
     YMapping(<<YKey(<<"properties">>), YMapping(<<YKey(NameA), YType("string")>>)>>),
     YObject(YScalar(<<"string">>)),
     YObject(YMapping(<<>>)),
     YMapping(<<YKey(<<"type">>), YScalar(<<"array">>),
                YKey(<<"items">>), YObject(YMapping(<<YKey(NameA), YType("string")>>))>>)}

YSiblings == {YType("string"), YObject(YMapping(<<YKey(NameB), YType("string")>>))}

\* property mappings: one key a or b, or the keys a and b in either order
YProps(S) ==
    {YMapping(<<YKey(k), x>>) : k \in {NameA, NameB}, x \in S}
    \cup {YMapping(<<YKey(NameA), x, YKey(NameB), y>>) : x \in S, y \in YSiblings}
    \cup {YMapping(<<YKey(NameB), y, YKey(NameA), x>>) : x \in S, y \in YSiblings}

RECURSIVE YFields(_)
\* field nodes with objects nested up to d deep
YFields(d) ==
    IF d = 0 THEN YLeaves
    ELSE YLeaves \cup {YObject(props) : props \in YProps(YFields(d - 1))}

\* schema nodes: structured roots, with the keys of the root in either
\* order or without `type`, a compact root, a scalar, and no schema at all
YRoots ==
    {YObject(props) : props \in YProps(YFields(MaxNest))}
    \cup {YMapping(<<YKey(<<"properties">>), props>>) : props \in YProps(YLeaves)}
    \cup {YMapping(<<YKey(NameA), YScalar(<<"string">>)>>), YScalar(<<"string">>), NilNode}

InitNodes ==
    /\ schema \in YRoots
    /\ requiredFields = <<>>
    /\ schemaType \in {SchemaTypeInput, SchemaTypeOutput}
    /\ fieldOrder = Nil
    /\ nestedFieldOrder = NoProps
    /\ mapOrder = "asc"
    /\ pc = "ready"
    /\ entry = "none"
    /\ result = NoResult
    /\ variables = <<>>

\* ---- family 9: template variables against an input schema ----

VariableNames ==
    {NameA, NameB, NameC, <<"a", ".", "b">>, <<"c", ".", "a">>, <<"this">>,
     <<"this", ".", "a">>, <<"@index">>, <<"@key">>, <<"@first">>, <<"@last">>}

InputSchemas ==
    {JSONRoot(One(NameA, Prim("string"))),
     JSONRoot(Two(NameA, Prim("string"), NameB, Obj(One(NameC, Prim("string")), <<>>))),
     [JSONRoot(One(NameA, Prim("string"))) EXCEPT !.hasType = FALSE],
     [PicoRoot(NoProps) EXCEPT !.hasType = TRUE],
     PicoRoot(One(NameA, Str(<<"string">>))),
     PicoRoot(Two(NameA \o <<"?">>, Str(<<"string">>),
                  NameB \o <<"(array)">>, Str(<<"string">>)))}

InitVars ==
    /\ schema \in InputSchemas
    /\ variables \in Lists(VariableNames, MaxVars)
    /\ requiredFields = <<>>
    /\ schemaType = SchemaTypeInput
    /\ fieldOrder = Nil
    /\ nestedFieldOrder = NoProps
    /\ mapOrder = "asc"
    /\ pc = "ready"
    /\ entry = "none"
    /\ result = [errors |-> <<>>]

-----------------------------------------------------------------------------
(* The calls.                                                               *)

CallParseSchemaWithStructs ==
    /\ pc = "ready"
    /\ result' = ParseSchemaWithStructs(schema, requiredFields, schemaType)
    /\ entry' = "ParseSchemaWithStructs"
    /\ pc' = "done"
    /\ UNCHANGED <<schema, requiredFields, schemaType, fieldOrder,
                   nestedFieldOrder, mapOrder, variables>>

CallParseSchemaWithStructsAndFieldOrder ==
    /\ pc = "ready"
    /\ result' = ParseSchemaWithStructsAndFieldOrder(schema, requiredFields,
                                                     schemaType, fieldOrder)
    /\ entry' = "ParseSchemaWithStructsAndFieldOrder"
    /\ pc' = "done"
    /\ UNCHANGED <<schema, requiredFields, schemaType, fieldOrder,
                   nestedFieldOrder, mapOrder, variables>>

CallParseJSONSchemaWithNestedFieldOrder ==
    /\ pc = "ready"
    /\ result' = ParseJSONSchemaWithNestedFieldOrder(schema, requiredFields, schemaType,
                                                     fieldOrder, nestedFieldOrder)
    /\ entry' = "ParseJSONSchemaWithNestedFieldOrder"
    /\ pc' = "done"
    /\ UNCHANGED <<schema, requiredFields, schemaType, fieldOrder,
                   nestedFieldOrder, mapOrder, variables>>

\* parser.go:168-176: the nested ordering hints of the input or output schema
CallExtractNestedSchemaFieldOrder ==
    /\ pc = "ready"
    /\ pc' = "done"
    /\ entry' = "extractNestedSchemaFieldOrder"
    /\ result' = extractNestedSchemaFieldOrder(schema)
    /\ UNCHANGED <<schema, requiredFields, schemaType, fieldOrder, nestedFieldOrder, mapOrder, variables>>

NextExtract == CallExtractNestedSchemaFieldOrder

\* part_012:101-106: the variables are checked when the input schema is a map
CallValidateVariablesAgainstSchema ==
    /\ pc = "ready"
    /\ schema.kind = "map"
    /\ pc' = "done"
    /\ entry' = "ValidateVariablesAgainstSchema"
    /\ result' = [errors |-> ValidateVariablesAgainstSchema(variables, schema)]
    /\ UNCHANGED <<schema, requiredFields, schemaType, fieldOrder, nestedFieldOrder,
                   mapOrder, variables>>

NextValidate == CallValidateVariablesAgainstSchema

Next ==
    \/ CallParseSchemaWithStructs
    \/ CallParseSchemaWithStructsAndFieldOrder
    \/ CallParseJSONSchemaWithNestedFieldOrder

\* what the entry point called in this behaviour returns for the inputs
RunEntry ==
    CASE entry = "ParseSchemaWithStructs" ->
           ParseSchemaWithStructs(schema, requiredFields, schemaType)
      [] entry = "ParseSchemaWithStructsAndFieldOrder" ->
           ParseSchemaWithStructsAndFieldOrder(schema, requiredFields, schemaType,
                                               fieldOrder)
      [] entry = "ParseJSONSchemaWithNestedFieldOrder" ->
           ParseJSONSchemaWithNestedFieldOrder(schema, requiredFields, schemaType,
                                               fieldOrder, nestedFieldOrder)

\* between two runs the runtime picks the map iteration order afresh
Reseed ==
    /\ pc = "done"
    /\ mapOrder' \in {"asc", "desc"}
    /\ pc' = "reseeded"
    /\ UNCHANGED <<schema, requiredFields, schemaType, fieldOrder,
                   nestedFieldOrder, entry, result, variables>>

\* the same call made once more with the same arguments
CallAgain ==
    /\ pc = "reseeded"
    /\ result' = RunEntry
    /\ pc' = "again"
    /\ UNCHANGED <<schema, requiredFields, schemaType, fieldOrder,
                   nestedFieldOrder, mapOrder, entry, variables>>

NextTwice ==
    \/ Next
    \/ Reseed
    \/ CallAgain

\* every field shape in both dialects, roles and required lists
SpecShapes == InitShapes /\ [][Next]_vars

\* field and record names of structured schemas with sibling records
SpecNames == InitNames /\ [][Next]_vars

\* nested objects parsed with ordering hints
SpecOrder == InitOrder /\ [][Next]_vars

\* root ordering hints in both dialects, each call made twice
SpecHints == InitHints /\ [][NextTwice]_vars

\* root values of every kind and schemas with failing fields
SpecRoots == InitRoots /\ [][Next]_vars

\* enum value lists in both dialects
SpecEnums == InitEnums /\ [][Next]_vars

\* compact schemas compared with their structured form
SpecTwins == InitTwins /\ [][Next]_vars

\* the extraction of nested ordering hints from YAML schema nodes
SpecNodes == InitNodes /\ [][NextExtract]_vars

\* the check of template variables against input schemas
SpecVars == InitVars /\ [][NextValidate]_vars

-----------------------------------------------------------------------------
(* Properties.                                                               *)

\* every field descriptor of a result: the root fields and the records' fields
AllFields(res) ==
    SeqToSet(res.fields) \cup UNION {SeqToSet(st.Fields) : st \in SeqToSet(res.structs)}

\* the type is pointer-wrapped
PointerType(f) == HasPrefix(f.GoType, "*")

\* the descriptor is nullable: by its type or by its flag
Nullable(f) == PointerType(f) \/ f.IsPointer

\* the logged calls of a finished parse; each returned field is in the result
Calls == IF pc = "done" THEN result.calls ELSE {}

\* the type name a compact simple field was declared with
PicoTypeName(c) == parseFieldDefinition(schema.entries[c.key].str)[1]

\* C1: for role=Output a non-required nested-object field with properties has a
\* pointer-wrapped reference to its record, at the root and in nested records.
C1_NestedRecordNullable ==
    schemaType = SchemaTypeOutput =>
        \A c \in Calls :
            (c.shape = "object" /\ c.field.IsObject /\ ~c.isRequired)
                => PointerType(c.field)

C4_ArrayNeverNullable ==
    \A c \in Calls :
        c.shape = "array" => ~c.field.IsPointer /\ ~Contains(c.field.GoType, "*")

\* the same schema with every property of every object listed as required
RECURSIVE AllRequiredDef(_)
AllRequiredDef(d) ==
    [d EXCEPT !.required = SortStrings(DOMAIN d.props),
              !.props = [n \in DOMAIN d.props |-> AllRequiredDef(d.props[n])],
              !.items = IF Len(d.items) = 0 THEN <<>> ELSE <<AllRequiredDef(d.items[1])>>]

AllRequiredSchema(sch) ==
    [sch EXCEPT !.props = [n \in DOMAIN sch.props |-> AllRequiredDef(sch.props[n])]]

\* the descriptors of a result, without the call log
Descriptors(res) ==
    [fields |-> res.fields, enums |-> res.enums, structs |-> res.structs, err |-> res.err]

\* the call that was made, on another schema and required list
Rerun(sch, required) ==
    CASE entry = "ParseSchemaWithStructs" ->
            ParseSchemaWithStructs(sch, required, schemaType)
      [] entry = "ParseSchemaWithStructsAndFieldOrder" ->
            ParseSchemaWithStructsAndFieldOrder(sch, required, schemaType, fieldOrder)
      [] entry = "ParseJSONSchemaWithNestedFieldOrder" ->
            ParseJSONSchemaWithNestedFieldOrder(sch, required, schemaType,
                                                fieldOrder, nestedFieldOrder)

\* C5: for role=Input every field at every depth is treated as required: the
\* result is the one obtained when requiredFields lists every root key and
\* every nested object lists all of its properties as required.
C5_InputAllRequired ==
    (pc = "done" /\ schemaType = SchemaTypeInput) =>
        Descriptors(result) =
            Descriptors(Rerun(AllRequiredSchema(schema),
                              SortStrings(DOMAIN schema.props \cup DOMAIN schema.entries)))

C5_Witness ==
    /\ pc = "done"
    /\ schemaType = SchemaTypeInput
    /\ requiredFields = <<>>
    /\ \E c, d \in result.calls :
          /\ c.parent # <<>> /\ ~c.isRequired /\ c.shape = "simple"
          /\ d.parent # <<>> /\ ~d.isRequired /\ d.shape = "object" /\ d.field.IsObject

\* the schema key without its `?` and `(array)` markers
RECURSIVE StripMarkers(_)
StripMarkers(key) ==
    IF Len(key) = 0 THEN <<>>
    ELSE (IF key[1] \in {"?", "(array)"} THEN <<>> ELSE <<key[1]>>)
         \o StripMarkers(Tail(key))

\* the keys of the root map whose external name is in requiredFields
ListedKeys ==
    {k \in DOMAIN schema.props \cup DOMAIN schema.entries :
        StripMarkers(k) \in SeqToSet(requiredFields)}

\* C6: for role=Output a root field is required iff its external name (the
\* key without its `?` / `(array)` markers) appears in requiredFields, in both
\* dialects: the result is the one in which exactly those keys are required.
C6_RequiredIffListed ==
    (pc = "done" /\ schemaType = SchemaTypeOutput) =>
        Descriptors(result) = Descriptors(Rerun(schema, SortStrings(ListedKeys)))

\* the paths (property names from the root) that lead, through objects with
\* properties only, to an object with properties
RECURSIVE ObjectPathsFrom(_, _)
ObjectPathsFrom(props, prefix) ==
    UNION {{Append(prefix, n)} \cup ObjectPathsFrom(props[n].props, Append(prefix, n)) :
              n \in {m \in DOMAIN props :
                        /\ props[m].isMap
                        /\ FieldShape(props[m]) = "object"
                        /\ props[m].propsIsMap}}

ObjectPaths == ObjectPathsFrom(schema.props, <<>>)

RECURSIVE DefAtFrom(_, _)
DefAtFrom(props, path) ==
    IF Len(path) = 1 THEN props[path[1]]
    ELSE DefAtFrom(props[path[1]].props, Tail(path))

\* the object definition a path leads to
DefAt(path) == DefAtFrom(schema.props, path)

\* the identifiers of the fields on a path, concatenated
PascalPath(path) == Concat([i \in 1..Len(path) |-> SnakeToPascalCase(path[i])])

\* the names on a path joined by `.`
Dotted(path) == Join(path, ".")

\* the external names of a record's fields, in order
Tags(fields) == [i \in 1..Len(fields) |-> fields[i].JSONTag]

Structs == IF pc = "done" THEN result.structs ELSE <<>>

\* C7: within one parse result all record names are pairwise distinct.
C7_RecordNamesDistinct ==
    \A i, j \in 1..Len(Structs) : i # j => Structs[i].Name # Structs[j].Name

\* C8: the record of a nested object field is named by the enclosing record's
\* name followed by the field's identifier (no prefix at the root), so the
\* record of an object reached through n nested object fields is named by the
\* identifiers of those n fields concatenated, and holds that object's fields.
C8_RecordNamedByPath ==
    /\ \A c \in Calls :
          (c.shape = "object" /\ c.field.IsObject) =>
              /\ c.field.GoType = c.parent \o SnakeToPascalCase(c.key)
              /\ \E i \in 1..Len(Structs) : Structs[i].Name = c.field.GoType
    /\ (pc = "done" /\ result.err = Nil) =>
          \A p \in ObjectPaths :
              \E i \in 1..Len(Structs) :
                  /\ Structs[i].Name = PascalPath(p)
                  /\ SeqToSet(Tags(Structs[i].Fields)) = DOMAIN DefAt(p).props

C8_Witness ==
    /\ pc = "done"
    /\ result.err = Nil
    /\ <<NameA, NameB>> \in ObjectPaths
    /\ \E i \in 1..Len(Structs) : Structs[i].Name = <<"A", "B">>
    /\ \E c \in result.calls :
          c.shape = "object" /\ c.parent = <<"A", "B", "Item">> /\ c.field.IsObject

\* C9: every field descriptor's name, at the root and in every record, is the
\* identifier conversion of its own external name.
C9_FieldNameFromExternalName ==
    pc = "done" => \A f \in AllFields(result) : f.Name = SnakeToPascalCase(f.JSONTag)

IsPermutationOf(order, S) == Len(order) = Cardinality(S) /\ SeqToSet(order) = S

\* C10: a nested object whose dotted path has an entry in nestedFieldOrder
\* listing all of its properties gets its record's fields in that order; an
\* object with no entry for its path gets them in alphabetical order.
C10_NestedOrderByDottedPath ==
    (pc = "done" /\ entry = "ParseJSONSchemaWithNestedFieldOrder" /\ result.err = Nil) =>
        \A p \in ObjectPaths :
            \A i \in 1..Len(Structs) :
                Structs[i].Name = PascalPath(p) =>
                    LET names == DOMAIN DefAt(p).props
                        hint == Lookup(nestedFieldOrder, Dotted(p))
                    IN /\ (Dotted(p) \in DOMAIN nestedFieldOrder
                             /\ IsPermutationOf(hint, names))
                          => Tags(Structs[i].Fields) = hint
                       /\ Dotted(p) \notin DOMAIN nestedFieldOrder
                          => Tags(Structs[i].Fields) = SortStrings(names)

Returned == pc \in {"done", "again"}

\* the ordered name sequences of a result: fields, enums, records
NameSequences(res) ==
    <<[i \in 1..Len(res.fields) |-> res.fields[i].Name],
      [i \in 1..Len(res.enums) |-> res.enums[i].Name],
      [i \in 1..Len(res.structs) |-> res.structs[i].Name]>>

\* C11: parsing is deterministic: a second run with the same schema, role,
\* required list and ordering hints returns the same ordered sequences of
\* field names, enum names and record names as the first.
C11_Deterministic ==
    [][(pc = "reseeded" /\ pc' = "again")
          => NameSequences(result') = NameSequences(result)]_vars

\* the keys of the root map of the schema
RootKeys == DOMAIN schema.props \cup DOMAIN schema.entries

\* the schema key the i-th returned root field was parsed from
KeyAt(i) ==
    CHOOSE k \in RootKeys :
        \E c \in result.calls :
            c.key = k /\ c.parent = <<>> /\ c.field = result.fields[i]

\* the schema keys of the returned root fields, in the order returned
ReturnedKeys == [i \in 1..Len(result.fields) |-> KeyAt(i)]

\* the call was given no root ordering hint
NoHintGiven == entry = "ParseSchemaWithStructs" \/ fieldOrder = Nil

\* C12: with no ordering hint (nil or empty) the root fields are returned in
\* ascending lexicographic order of the schema's keys, in both dialects.
C12_FallbackAlphabetical ==
    (Returned /\ result.err = Nil /\ NoHintGiven) =>
        /\ Len(result.fields) = Cardinality(RootKeys)
        /\ \A i, j \in 1..Len(result.fields) :
              i < j => StrLess(ReturnedKeys[i], ReturnedKeys[j])

C12_Witness ==
    /\ Returned /\ result.err = Nil /\ NoHintGiven
    /\ mapOrder = "desc"
    /\ schema.kind = "map" /\ ~schema.hasProperties
    /\ Len(result.fields) = 3

\* C13: when the root ordering hint contains all declared keys of the schema,
\* the root fields are returned in exactly the hint's order, in both dialects.
C13_HintOrderKept ==
    (Returned /\ result.err = Nil /\ ~NoHintGiven /\ RootKeys \subseteq SeqToSet(fieldOrder)) =>
        LET Declared(k) == k \in RootKeys
        IN ReturnedKeys = SelectSeq(fieldOrder, Declared)

C13_Witness ==
    /\ Returned /\ result.err = Nil /\ ~NoHintGiven
    /\ RootKeys = SeqToSet(fieldOrder)
    /\ Len(fieldOrder) = 3
    /\ fieldOrder # SortStrings(RootKeys)
    /\ ReturnedKeys = fieldOrder
    /\ ~schema.hasProperties

\* C14: for a root that is a string-keyed map exactly one of IsPicoschema and
\* IsJSONSchema is true: IsPicoschema iff it has neither a `type` nor a
\* `properties` key, IsJSONSchema iff it has one of them; for a root that is
\* no map both are false.
C14_DialectDetection ==
    /\ schema.kind = "map" =>
          /\ IsPicoschema(schema) # IsJSONSchema(schema)
          /\ IsPicoschema(schema) <=> (~schema.hasType /\ ~schema.hasProperties)
          /\ IsJSONSchema(schema) <=> (schema.hasType \/ schema.hasProperties)
    /\ schema.kind # "map" => (~IsPicoschema(schema) /\ ~IsJSONSchema(schema))

\* a root with `type` but no `properties` was taken as structured
C14_Witness ==
    /\ pc = "done"
    /\ entry = "ParseSchemaWithStructsAndFieldOrder"
    /\ schema.kind = "map" /\ schema.hasType /\ ~schema.hasProperties
    /\ result.err = <<"JSON schema must have properties">>

NothingReturned(res) == res.fields = <<>> /\ res.enums = <<>> /\ res.structs = <<>>

\* C15: ParseSchemaWithStructsAndFieldOrder fails with an error and returns no
\* fields, enums or records for every root that is no string-keyed map.
C15_NonMapRootFails ==
    (/\ pc = "done"
     /\ entry \in {"ParseSchemaWithStructsAndFieldOrder", "ParseSchemaWithStructs"}
     /\ schema.kind # "map")
        => (result.err # Nil /\ NothingReturned(result))

RECURSIVE FieldFails(_)
\* a structured field definition that the field parser rejects, itself or in
\* a field of a record below it
FieldFails(def) ==
    \/ ~def.isMap
    \/ /\ def.isMap /\ def.hasEnum /\ ~def.enumIsList
    \/ /\ def.isMap /\ ~def.hasEnum /\ def.hasType /\ def.type = "object"
       /\ def.propsIsMap
       /\ \E n \in DOMAIN def.props : FieldFails(def.props[n])
    \/ /\ def.isMap /\ ~def.hasEnum /\ def.hasType /\ def.type = "array"
       /\ Len(def.items) > 0
       /\ def.items[1].isMap
       /\ IF def.items[1].hasType /\ def.items[1].type = "object" /\ def.items[1].propsIsMap
          THEN \E n \in DOMAIN def.items[1].props : FieldFails(def.items[1].props[n])
          ELSE def.items[1].hasEnum /\ ~def.items[1].enumIsList

\* a compact field value that the field parser rejects: no string, or an
\* enum marker without a well-formed value list
PicoFieldFails(v) ==
    \/ ~v.isString
    \/ /\ v.isString
       /\ Contains(v.str, "(enum")
       /\ ~ \E i, j \in 1..Len(v.str) : i + 1 < j /\ v.str[i] = "[" /\ v.str[j] = "]"

\* some field of the schema, at some depth, fails to parse
SomeFieldFails ==
    /\ schema.kind = "map"
    /\ IF IsPicoschema(schema) /\ entry # "ParseJSONSchemaWithNestedFieldOrder"
       THEN \E k \in DOMAIN schema.entries : PicoFieldFails(schema.entries[k])
       ELSE schema.propsIsMap /\ \E n \in DOMAIN schema.props : FieldFails(schema.props[n])

\* C16: if parsing any field at any depth fails, the parse returns an error
\* and empty fields, enums and records, however many sibling fields were
\* parsed before the failing one; an error never comes with a partial model.
C16_FailFastNoPartialModel ==
    pc = "done" =>
        /\ SomeFieldFails => result.err # Nil
        /\ result.err # Nil => NothingReturned(result)

\* a field two records deep fails after its siblings at every level parsed
C16_Witness ==
    /\ pc = "done"
    /\ result.err # Nil
    /\ schema.propsIsMap
    /\ NameB \in DOMAIN schema.props
    /\ ~FieldFails(schema.props[NameA])
    /\ schema.props[NameB].propsIsMap
    /\ NameB \in DOMAIN schema.props[NameB].props
    /\ schema.props[NameB].props[NameB].propsIsMap
    /\ NameB \in DOMAIN schema.props[NameB].props[NameB].props
    /\ FieldFails(schema.props[NameB].props[NameB].props[NameB])

RECURSIVE TypeName(_)
\* the name a type refers to: the type without its pointer and slice marks
TypeName(t) ==
    IF t # <<>> /\ Head(t) \in {"*", "[]"} THEN TypeName(Tail(t)) ELSE t

BuiltinTypeNames ==
    {<<>>, <<"string">>, <<"float64">>, <<"int">>, <<"bool">>, <<"any">>, <<"map[string]any">>}

EnumNames(res) == {res.enums[i].Name : i \in 1..Len(res.enums)}

StructNames(res) == {res.structs[i].Name : i \in 1..Len(res.structs)}

RECURSIVE Sum(_, _)
Sum(f, S) == IF S = {} THEN 0 ELSE LET x == CHOOSE y \in S : TRUE IN f[x] + Sum(f, S \ {x})

RECURSIVE RecordsIn(_)
\* the number of records a property map declares: one per object field and
\* per array of objects with a property map, at every depth
RecordsIn(props) ==
    Sum([n \in DOMAIN props |->
            LET def == props[n]
                items == IF def.isMap /\ Len(def.items) > 0 THEN def.items[1] ELSE NonMapDef
            IN IF ~def.isMap \/ def.hasEnum THEN 0
               ELSE IF def.hasType /\ def.type = "object" /\ def.propsIsMap
               THEN 1 + RecordsIn(def.props)
               ELSE IF /\ def.hasType /\ def.type = "array" /\ items.isMap
                       /\ items.hasType /\ items.type = "object" /\ items.propsIsMap
               THEN 1 + RecordsIn(items.props)
               ELSE 0],
        DOMAIN props)

RECURSIVE EnumsIn(_)
\* the number of enums a property map declares: one per field with an enum
\* list and per array whose items carry one, at every depth
EnumsIn(props) ==
    Sum([n \in DOMAIN props |->
            LET def == props[n]
                items == IF def.isMap /\ Len(def.items) > 0 THEN def.items[1] ELSE NonMapDef
            IN IF ~def.isMap THEN 0
               ELSE IF def.hasEnum THEN 1
               ELSE IF def.hasType /\ def.type = "object" /\ def.propsIsMap
               THEN EnumsIn(def.props)
               ELSE IF def.hasType /\ def.type = "array" /\ items.isMap
               THEN IF items.hasType /\ items.type = "object" /\ items.propsIsMap
                    THEN EnumsIn(items.props)
                    ELSE IF items.hasEnum THEN 1 ELSE 0
               ELSE 0],
        DOMAIN props)

StructuredSuccess ==
    /\ pc = "done"
    /\ result.err = Nil
    /\ schema.kind = "map"
    /\ IsJSONSchema(schema) \/ entry = "ParseJSONSchemaWithNestedFieldOrder"

\* C17: after a successful parse every record or enum name that the type of a
\* field refers to, at the root or in any record, directly or as an array
\* element, names a descriptor of the returned records / enums, and every
\* record and enum declared at any depth is in the returned lists.
C17_ReferencesResolved ==
    /\ (pc = "done" /\ result.err = Nil) =>
          \A f \in AllFields(result) :
              /\ TypeName(f.GoType) \notin BuiltinTypeNames =>
                    TypeName(f.GoType) \in EnumNames(result) \cup StructNames(result)
              /\ f.IsEnum => TypeName(f.GoType) \in EnumNames(result)
              /\ f.IsObject => TypeName(f.GoType) \in StructNames(result)
    /\ StructuredSuccess =>
          /\ Len(result.structs) = RecordsIn(schema.props)
          /\ Len(result.enums) = EnumsIn(schema.props)

\* an enum inside a record inside an array of records, all returned
C17_Witness ==
    /\ StructuredSuccess
    /\ Len(result.structs) = 2
    /\ Len(result.enums) = 1
    /\ \E f \in AllFields(result) :
          /\ HasPrefix(f.GoType, "[]")
          /\ TypeName(f.GoType) \in StructNames(result)
    /\ \E i \in 1..Len(result.structs) :
          /\ Len(result.structs[i].Name) > 2
          /\ \E f \in SeqToSet(result.structs[i].Fields) :
                f.IsEnum /\ TypeName(f.GoType) \in EnumNames(result)

\* C18: in the compact dialect the field of a key carrying `?`, `(array)` or
\* both has the key without these markers as its external name, and the
\* identifier conversion of that stripped name as its name.
C18_MarkersStripped ==
    \A c \in Calls :
        (c.dialect = "pico" /\ (Contains(c.key, "?") \/ Contains(c.key, "(array)"))) =>
            /\ c.field.JSONTag = StripMarkers(c.key)
            /\ c.field.Name = SnakeToPascalCase(StripMarkers(c.key))

\* the identifier conversion of a name: `_` dropped, the first letter and
\* every letter after a `_` in upper case
Identifier(s) ==
    LET kept == {i \in 1..Len(s) : s[i] # "_"}
        Up(i) == IF i = 1 \/ s[i - 1] = "_" THEN ToUpper(s[i]) ELSE s[i]
        RECURSIVE From(_)
        From(i) == IF i > Len(s) THEN <<>>
                   ELSE (IF i \in kept THEN <<Up(i)>> ELSE <<>>) \o From(i + 1)
    IN From(1)

DashToUnderscore(s) == [i \in 1..Len(s) |-> IF s[i] = "-" THEN "_" ELSE s[i]]

RECURSIVE ListItems(_)
\* the items of a written list `x, y, z`, blanks left out
ListItems(toks) ==
    LET NoBlank(t) == SelectSeq(t, LAMBDA c : c # " ")
        i == Index(toks, ",")
    IN IF i = 0 THEN <<NoBlank(toks)>>
       ELSE <<NoBlank(SubSeq(toks, 1, i - 1))>> \o ListItems(SubSeq(toks, i + 1, Len(toks)))

\* the enum list the schema declares for its field a, as written
SourceValues ==
    IF ~schema.hasProperties
    THEN LET str == schema.entries[NameA].str
         IN ListItems(SubSeq(str, Index(str, "[") + 1, Index(str, "]") - 1))
    ELSE IF schema.props[NameA].hasEnum THEN schema.props[NameA].enum
    ELSE schema.props[NameA].items[1].enum

EnumReturned == pc = "done" /\ result.err = Nil /\ Len(result.enums) = 1

TheEnum == result.enums[1]

\* C19: the values of an enum descriptor, in either dialect, are the values of
\* the source list in declaration order, and the constant name of each is the
\* enum's name followed by the identifier conversion of the value with every
\* `-` replaced by `_`.
C19_EnumValuesInOrder ==
    /\ (pc = "done" /\ result.err = Nil) => Len(result.enums) = 1
    /\ EnumReturned =>
          /\ Len(TheEnum.Values) = Len(SourceValues)
          /\ \A i \in 1..Len(SourceValues) :
                /\ TheEnum.Values[i].Value = SourceValues[i]
                /\ TheEnum.Values[i].ConstName =
                      TheEnum.Name \o Identifier(DashToUnderscore(SourceValues[i]))

\* the list [a, ab-ca] in the compact dialect gives AEnumA, AEnumAbCa
C19_Witness ==
    /\ EnumReturned
    /\ ~schema.hasProperties
    /\ SourceValues = <<<<"a">>, <<"a", "b", "-", "c", "a">>>>
    /\ TheEnum.Values[2].ConstName = <<"A", "Enum", "A", "b", "C", "a">>

\* C20: within an enum descriptor the constant names are pairwise distinct
\* whenever the source values are pairwise distinct.
C20_ConstNamesDistinct ==
    (/\ EnumReturned
     /\ \A i, j \in 1..Len(SourceValues) : i # j => SourceValues[i] # SourceValues[j])
        => \A i, j \in 1..Len(TheEnum.Values) :
               i # j => TheEnum.Values[i].ConstName # TheEnum.Values[j].ConstName

\* an array definition whose items are `type: object` with a `properties` map
IsObjectArray(def) ==
    /\ def.isMap /\ ~def.hasEnum /\ def.hasType /\ def.type = "array"
    /\ Len(def.items) > 0
    /\ def.items[1].isMap /\ def.items[1].hasType /\ def.items[1].type = "object"
    /\ def.items[1].propsIsMap

IsObjectField(def) ==
    def.isMap /\ ~def.hasEnum /\ def.hasType /\ def.type = "object" /\ def.propsIsMap

RECURSIVE ObjectArraysIn(_)
\* the arrays of objects a property map declares at any depth, each with its key
ObjectArraysIn(props) ==
    UNION {(IF IsObjectArray(props[n])
            THEN {[key |-> n, items |-> props[n].items[1]]}
                 \cup ObjectArraysIn(props[n].items[1].props)
            ELSE {})
           \cup
           (IF IsObjectField(props[n]) THEN ObjectArraysIn(props[n].props) ELSE {})
           : n \in DOMAIN props}

ItemRecordName(key) == Identifier(key) \o <<"Item">>

\* C21: a structured array field whose items are `type: object` with a
\* `properties` map yields one record named <FieldIdentifier>Item whose fields
\* are the items' properties, and the field's type is the array of that record.
C21_ObjectArrayItemRecord ==
    StructuredSuccess =>
        /\ \A a \in ObjectArraysIn(schema.props) :
              /\ \E f \in AllFields(result) :
                    /\ f.JSONTag = a.key
                    /\ f.GoType = <<"[]">> \o ItemRecordName(a.key)
              /\ \E i \in 1..Len(result.structs) :
                    /\ result.structs[i].Name = ItemRecordName(a.key)
                    /\ Len(result.structs[i].Fields) = Cardinality(DOMAIN a.items.props)
                    /\ SeqToSet(Tags(result.structs[i].Fields)) = DOMAIN a.items.props
        /\ Len(result.structs) = RecordsIn(schema.props)

\* the root field a_b of items {a, b} gives the one record ABItem with fields A, B
C21_Witness ==
    /\ StructuredSuccess
    /\ DOMAIN schema.props = {NameAB}
    /\ IsObjectArray(schema.props[NameAB])
    /\ DOMAIN schema.props[NameAB].items[1].props = {NameA, NameB}
    /\ Len(result.structs) = 1
    /\ result.structs[1].Name = <<"A", "B", "Item">>
    /\ [i \in 1..2 |-> result.structs[1].Fields[i].Name] = <<<<"A">>, <<"B">>>>
    /\ result.fields[1].GoType = <<"[]", "A", "B", "Item">>

\* the structured definition that says what a compact entry says
StructuredDef(key, str) ==
    LET base == IF Contains(str, "(enum")
                THEN [EnumDef(ListItems(SubSeq(str, Index(str, "[") + 1, Index(str, "]") - 1)))
                          EXCEPT !.type = str[1]]
                ELSE Prim(str[1])
    IN IF Contains(key, "(array)") THEN Arr(<<base>>) ELSE base

\* the structured schema that declares the fields of a compact schema
StructuredForm(sch) ==
    JSONRoot([n \in {StripMarkers(k) : k \in DOMAIN sch.entries} |->
                 LET k == CHOOSE k \in DOMAIN sch.entries : StripMarkers(k) = n
                 IN StructuredDef(k, sch.entries[k].str)])

\* the canonical model of a result: the fields and the enum descriptors
Canonical(res) ==
    [fields |-> [i \in 1..Len(res.fields) |->
                    [name |-> res.fields[i].Name,
                     externalName |-> res.fields[i].JSONTag,
                     type |-> res.fields[i].GoType,
                     nullable |-> Nullable(res.fields[i])]],
     enums |-> [i \in 1..Len(res.enums) |->
                   [name |-> res.enums[i].Name,
                    type |-> res.enums[i].Type,
                    values |-> res.enums[i].Values]]]

\* C22: a compact schema of primitives, arrays of primitives and enums, and
\* the structured schema of the same fields, parsed with the same role,
\* required list and ordering, give the same fields (name, external name,
\* type, nullability) and the same enum descriptors.
C22_DialectsAgree ==
    (/\ pc = "done"
     /\ entry \in {"ParseSchemaWithStructs", "ParseSchemaWithStructsAndFieldOrder"}
     /\ IsPicoschema(schema))
        => Canonical(result) = Canonical(Rerun(StructuredForm(schema), requiredFields))

\* the keys of a mapping node, in document order
YKeys(node) == [i \in 1..(Len(node.content) \div 2) |-> node.content[2 * i - 1].value]

\* the value under a key of a mapping node
YGet(node, k) ==
    node.content[2 * (CHOOSE i \in 1..(Len(node.content) \div 2) : YKeys(node)[i] = k)]

YHas(node, k) == node.kind = "mapping" /\ k \in SeqToSet(YKeys(node))

\* a field with `type: object` and a `properties` mapping
YIsObject(node) ==
    /\ YHas(node, <<"type">>) /\ YGet(node, <<"type">>) = YScalar(<<"object">>)
    /\ YHas(node, <<"properties">>) /\ YGet(node, <<"properties">>).kind = "mapping"

RECURSIVE YObjectPaths(_, _)
\* the nested object fields of a properties mapping: the path of names that
\* leads to each, with the names of its own properties in declaration order
YObjectPaths(props, prefix) ==
    UNION {IF YIsObject(YGet(props, k))
           THEN {[path |-> Append(prefix, k),
                  names |-> YKeys(YGet(YGet(props, k), <<"properties">>))]}
                \cup YObjectPaths(YGet(YGet(props, k), <<"properties">>), Append(prefix, k))
           ELSE {}
           : k \in SeqToSet(YKeys(props))}

\* the nested object fields reachable from the schema root
YNestedObjects ==
    IF YHas(schema, <<"properties">>) /\ YGet(schema, <<"properties">>).kind = "mapping"
    THEN YObjectPaths(YGet(schema, <<"properties">>), <<>>)
    ELSE {}

Extracted == pc = "done" /\ entry = "extractNestedSchemaFieldOrder"

\* C23 as stated: extractNestedSchemaFieldOrder returns exactly one entry for
\* each nested field with `type: object` and a `properties` map reachable from
\* the root through such objects, keyed by the dotted path, its value the
\* object's property names in declaration order; nothing else has an entry.
C23_OneEntryPerNestedObject ==
    Extracted =>
        /\ DOMAIN result.nestedOrders = {Dotted(o.path) : o \in YNestedObjects}
        /\ \A o \in YNestedObjects : result.nestedOrders[Dotted(o.path)] = o.names

\* C23 amended: the entries are those of the nested objects whose `properties`
\* map is not empty.
C23_OneEntryPerNonEmptyNestedObject ==
    Extracted =>
        /\ DOMAIN result.nestedOrders =
              {Dotted(o.path) : o \in {n \in YNestedObjects : n.names # <<>>}}
        /\ \A o \in YNestedObjects :
              o.names # <<>> => result.nestedOrders[Dotted(o.path)] = o.names

\* the property a at the path a.a, from YObjectPaths
YArrayAtAAA ==
    \E o \in YNestedObjects :
        /\ o.path = <<NameA, NameA>>
        /\ o.names = <<NameA>>

\* the object a with the properties b, a in that order, both objects, and
\* under a.a an array of objects, which has no entry
C23_Witness ==
    /\ Extracted
    /\ DOMAIN result.nestedOrders = {<<"a">>, <<"a", ".", "b">>, <<"a", ".", "a">>}
    /\ result.nestedOrders[<<"a">>] = <<NameB, NameA>>
    /\ result.nestedOrders[<<"a", ".", "a">>] = <<NameA>>
    /\ YArrayAtAAA
    /\ YHas(YGet(YGet(YGet(YGet(YGet(YGet(schema, <<"properties">>), NameA),
                                <<"properties">>), NameA), <<"properties">>), NameA),
            <<"items">>)

\* the external names of the root fields of a schema of either dialect
RootExternalNames(sch) ==
    IF sch.hasType \/ sch.hasProperties
    THEN (IF sch.propsIsMap THEN DOMAIN sch.props ELSE {})
    ELSE {StripMarkers(k) : k \in DOMAIN sch.entries}

\* the part of a variable before its first `.`
FirstSegment(variable) ==
    IF Index(variable, ".") = 0 THEN variable
    ELSE SubSeq(variable, 1, Index(variable, ".") - 1)

Undeclared(variable) ==
    /\ FirstSegment(variable) \notin RootExternalNames(schema)
    /\ FirstSegment(variable) \notin
          {<<"this">>, <<"@index">>, <<"@key">>, <<"@first">>, <<"@last">>}

\* C24: ValidateVariablesAgainstSchema returns, in variable order, one error
\* for each listed variable whose first segment is neither the external name
\* of a root field of the input schema, of either dialect, nor a special
\* variable, and no other error.
C24_ErrorsForUndeclaredVariables ==
    (pc = "done" /\ entry = "ValidateVariablesAgainstSchema") =>
        LET bad == SelectSeq(variables, Undeclared)
        IN /\ Len(result.errors) = Len(bad)
           /\ \A i \in 1..Len(bad) : result.errors[i] = VariableError(bad[i])

\* C25: for any root ordering hint (partial, naming absent keys, or repeating
\* a name) the root fields are those of the hint's present keys in hint order,
\* followed by those of every present key the hint does not list, and each
\* declared key yields exactly one field.
C25_HintThenUnlisted ==
    (Returned /\ result.err = Nil /\ ~NoHintGiven) =>
        LET Declared(k) == k \in RootKeys
            listed == SelectSeq(fieldOrder, Declared)
        IN /\ Len(ReturnedKeys) >= Len(listed)
           /\ SubSeq(ReturnedKeys, 1, Len(listed)) = listed
           /\ SeqToSet(SubSeq(ReturnedKeys, Len(listed) + 1, Len(ReturnedKeys)))
                 = RootKeys \ SeqToSet(fieldOrder)
           /\ \A k \in RootKeys :
                 Cardinality({i \in 1..Len(ReturnedKeys) : ReturnedKeys[i] = k}) = 1

\* the enum grammar of a compact value: identifier(enum...): [v1, ...]
MatchesEnumGrammar(str) ==
    \E j, m, n \in 1..Len(str) :
        /\ Len(str) >= 2 /\ str[2] = "(enum"
        /\ j > 2 /\ str[j] = ")"
        /\ j + 1 < m /\ str[j + 1] = ":"
        /\ \A k \in (j + 2)..(m - 1) : str[k] = " "
        /\ str[m] = "["
        /\ n > m + 1 /\ str[n] = "]"

\* the text of a compact value before its first comma
TextBeforeComma(str) ==
    TrimSpace(IF Index(str, ",") = 0 THEN str ELSE SubSeq(str, 1, Index(str, ",") - 1))

\* the primitive a compact type name stands for; untyped-any when unknown
PrimitiveOf(name) ==
    CASE name = <<"string">> -> <<"string">>
      [] name = <<"number">> -> <<"float64">>
      [] name = <<"integer">> -> <<"int">>
      [] name = <<"boolean">> -> <<"bool">>
      [] OTHER -> <<"any">>

\* a compact entry that is neither an enum nor an array
SimpleEntry(k) ==
    /\ schema.entries[k].isString
    /\ ~MatchesEnumGrammar(schema.entries[k].str)
    /\ ~Contains(k, "(array)")

CompactParsed ==
    /\ pc = "done"
    /\ entry \in {"ParseSchemaWithStructs", "ParseSchemaWithStructsAndFieldOrder"}
    /\ schema.kind = "map" /\ IsPicoschema(schema)

\* C26: a compact field whose value is a string outside the enum grammar and
\* whose name has no `(array)` is simple: parsing does not fail, the type is
\* the primitive of the text before the first comma, and an unknown type name
\* gives untyped-any.
C26_SimpleNeverFails ==
    (CompactParsed /\ \A k \in DOMAIN schema.entries : SimpleEntry(k)) =>
        /\ result.err = Nil
        /\ \A c \in result.calls :
              TypeName(c.field.GoType) =
                  PrimitiveOf(TextBeforeComma(schema.entries[c.key].str))

\* an array definition whose items carry no `enum` and are no object with
\* properties
IsPlainArray(def) ==
    /\ def.isMap /\ ~def.hasEnum /\ def.hasType /\ def.type = "array"
    /\ ~IsObjectArray(def)
    /\ ~(Len(def.items) > 0 /\ def.items[1].isMap /\ def.items[1].hasEnum)

\* the element type of a plain array: the primitive of items.type, else any
ElementOf(def) ==
    IF Len(def.items) > 0 /\ def.items[1].isMap /\ def.items[1].hasType
    THEN CASE def.items[1].type = "string" -> <<"string">>
           [] def.items[1].type = "number" -> <<"float64">>
           [] def.items[1].type = "integer" -> <<"int">>
           [] def.items[1].type = "boolean" -> <<"bool">>
           [] OTHER -> <<"any">>
    ELSE <<"any">>

\* C27: a structured array field without an `enum` in its items and without
\* object items with `properties` has the type Array(Primitive(k)) when
\* items.type is string, number, integer or boolean, and Array(untyped-any)
\* in every other case: no items, items no map, no items.type, or any other
\* items.type such as `array` and `object`.
C27_PlainArrayElementType ==
    StructuredSuccess =>
        \A c \in result.calls :
            (c.dialect = "json" /\ c.parent = <<>> /\ IsPlainArray(schema.props[c.key])) =>
                c.field.GoType = <<"[]">> \o ElementOf(schema.props[c.key])

RECURSIVE NestingDepth(_)
\* how deep records are nested below a property map: 0 without any object
\* field or array of objects, else one more than the deepest of them
NestingDepth(props) ==
    LET below == {1 + NestingDepth(props[n].props) :
                     n \in {m \in DOMAIN props : IsObjectField(props[m])}}
                 \cup
                 {1 + NestingDepth(props[n].items[1].props) :
                     n \in {m \in DOMAIN props : IsObjectArray(props[m])}}
    IN IF below = {} THEN 0 ELSE CHOOSE d \in below : \A e \in below : e <= d

\* C28: the structured parser has a maximum recursion depth and rejects a
\* schema whose objects are nested deeper with an error; stated for the
\* limits the checked schemas can tell apart: a schema nested MaxNest records
\* deep, the deepest there is, is over the limit and rejected.
C28_DepthLimitEnforced ==
    (/\ pc = "done"
     /\ schema.kind = "map" /\ schema.propsIsMap
     /\ NestingDepth(schema.props) >= MaxNest)
        => result.err # Nil

\* C29: every returned field, at the root or in a record, of either dialect,
\* has IsPointer true exactly when its GoType begins with `*`.
C29_IsPointerMatchesType ==
    pc = "done" => \A f \in AllFields(result) : f.IsPointer <=> PointerType(f)

\* C30: within one parse result all enum descriptor names are pairwise
\* distinct, so every enum reference names exactly one descriptor.
C30_EnumNamesDistinct ==
    pc = "done" =>
        \A i, j \in 1..Len(result.enums) :
            i # j => result.enums[i].Name # result.enums[j].Name

=============================================================================
